---- MODULE Spec2Model ----
(***************************************************************************)
(* wg-manager traffic accounting: the live WireGuard interface with its    *)
(* volatile per-peer counters, the SQLite counter store                    *)
(* (traffic_cumulative, traffic_daily, traffic_alerts) and the operations  *)
(* of services/wg-manager/wg_manager.py that read and write them.          *)
(***************************************************************************)
EXTENDS Integers, Sequences, FiniteSets, TLC

\* ------------------------------------------------------------------ bounds
\* The bytes a client transfers in a behaviour.
MaxTraffic == 3
\* The calendar days a behaviour spans.
MaxDays == 3

\* ------------------------------------------------------------ environment
\* The peers of the interface, in the order `wg show dump` lists them.
PeerOrder == <<"k1", "k2">>
PeerKeys == {PeerOrder[i] : i \in 1..Len(PeerOrder)}
Directions == {"rx", "tx"}

\* get_traffic_history(7) of the weekly report.
HistoryDays == 7

\* int(text) accepts the decimal integers; NotInt stands for any field text
\* int() rejects with ValueError.
NotInt == -1
IsInt(field) == field # NotInt

VARIABLES
    configured, \* the [Peer] blocks of the server configuration (public keys)
    live,       \* the peers present on the live interface
    dev,        \* live interface: peer -> [rx, tx], reset by a recreation
    lifetime,   \* bytes each peer ever transferred, over all incarnations
    today,      \* the UTC calendar date, <<month, day>>
    cumulative, \* table traffic_cumulative, a set of rows
    daily,      \* table traffic_daily, a set of rows
    clients,    \* wg_clients_dir: the set of [name, publickey] directories
    alerts,     \* table traffic_alerts, a set of rows
    settings,   \* the settings the quota check and the periodic job read
    call,       \* the handler invocation whose result its caller holds
    loop,       \* the asyncio event loop: the coroutine that runs, and where
                \* each handler stands
    bot         \* the Telegram Bot API: whether send_message() gets through,
                \* and the alerts whose message the chat received

vars == <<configured, live, dev, lifetime, today, cumulative, daily, clients,
          alerts, settings, call, loop, bot>>

\* ------------------------------------------------------------------ dates
\* strftime("%Y-%m-%d") strings are compared as text: month first, then day.
DateLess(a, b) == a[1] < b[1] \/ (a[1] = b[1] /\ a[2] < b[2])
DateLeq(a, b) == a = b \/ DateLess(a, b)
\* MonthStart with the format "%Y-01-01": the first day of the year.
MonthStartOfYear(d) == <<1, 1>>
\* now.strftime("%Y-%m-01")
MonthStart(d) == <<d[1], 1>>
\* The clock starts on the last day of a month of 31 days, so that the
\* behaviour crosses a month boundary; the month that follows does not end
\* within MaxDays.
StartDate == <<1, 31>>
DaysSince(d) == IF d = StartDate THEN 0 ELSE d[2]
Tomorrow(d) == IF d = StartDate THEN <<d[1] + 1, 1>> ELSE <<d[1], d[2] + 1>>

\* ------------------------------------------------------- run_local_command
\* One peer line of `wg show <if> dump`, split at the tabs:
\* public key, preshared key, endpoint, allowed ips, latest handshake,
\* rx bytes, tx bytes, persistent keepalive.
AllowedIps(pk) == IF pk = "k1" THEN "10.20.30.10/32" ELSE "10.20.30.2/32"
Handshake(c) == IF c.rx + c.tx = 0 THEN 0 ELSE 1
Endpoint(c) == IF c.rx + c.tx = 0 THEN "(none)" ELSE "198.51.100.7:4242"
PeerLine(pk, c) ==
    <<pk, "(none)", Endpoint(c), AllowedIps(pk), Handshake(c), c.rx, c.tx, 25>>

\* What can be wrong with a line: cut after 5 fields, or rx / tx not a number.
\* A dump has at most one such line.
LineKinds == {"ok", "short", "badrx", "badtx"}
DumpLine(pk, c, kind) ==
    CASE kind = "ok" -> PeerLine(pk, c)
      [] kind = "short" -> SubSeq(PeerLine(pk, c), 1, 5)
      [] kind = "badrx" -> [PeerLine(pk, c) EXCEPT ![6] = NotInt]
      [] kind = "badtx" -> [PeerLine(pk, c) EXCEPT ![7] = NotInt]

\* The interface line that heads the dump: private key, public key, port, fwmark.
HeaderLine == <<"priv", "pub", "17968", "off">>
RECURSIVE PeerLines(_, _, _, _)
PeerLines(order, present, d, kinds) ==
    IF order = <<>> THEN <<>>
    ELSE IF Head(order) \in present
         THEN <<DumpLine(Head(order), d[Head(order)], kinds[Head(order)])>>
              \o PeerLines(Tail(order), present, d, kinds)
         ELSE PeerLines(Tail(order), present, d, kinds)
WgShowDump(present, d, kinds) == <<HeaderLine>> \o PeerLines(PeerOrder, present, d, kinds)

AllOk == [pk \in PeerKeys |-> "ok"]
\* CommandResult of `wg show <if> dump`: exit status 0 with the dump, or a
\* failure whose stdout is empty or holds what was printed before the failure.
CommandResults(present, d) ==
    {[success |-> TRUE, output |-> WgShowDump(present, d, kinds)] :
        kinds \in {k \in [PeerKeys -> LineKinds] :
                     Cardinality({pk \in PeerKeys : k[pk] # "ok"}) <= 1}}
    \cup {[success |-> FALSE, output |-> <<>>],
          [success |-> FALSE, output |-> WgShowDump(present, d, AllOk)]}

\* result.output.strip().split("\n"): the empty text splits into one empty line.
SplitLines(output) == IF output = <<>> THEN << <<"">> >> ELSE output
\* lines[1:]
DropHeader(lines) == SubSeq(lines, 2, Len(lines))

\* ---------------------------------------------------------- counter store
CounterRows(cum, pk) == {r \in cum : r.public_key = pk}
\* SELECT ... FROM traffic_cumulative WHERE public_key = ?, zeros when absent
LoadCounter(cum, pk) ==
    IF CounterRows(cum, pk) = {}
    THEN [baseline_rx |-> 0, baseline_tx |-> 0, last_seen_rx |-> 0, last_seen_tx |-> 0]
    ELSE LET r == CHOOSE r \in CounterRows(cum, pk) : TRUE
         IN [baseline_rx |-> r.baseline_rx, baseline_tx |-> r.baseline_tx,
             last_seen_rx |-> r.last_seen_rx, last_seen_tx |-> r.last_seen_tx]

\* Reconcile without the fold: a regressed reading replaces last_seen only.
ReconcileNoFold(row, current_rx, current_tx) ==
    [baseline_rx |-> row.baseline_rx,
     baseline_tx |-> row.baseline_tx,
     last_seen_rx |-> current_rx,
     last_seen_tx |-> current_tx]

\* Reconcile with the fold unconditional: baseline += last_seen at every reading.
ReconcileAlwaysFold(row, current_rx, current_tx) ==
    [baseline_rx |-> row.baseline_rx + row.last_seen_rx,
     baseline_tx |-> row.baseline_tx + row.last_seen_tx,
     last_seen_rx |-> current_rx,
     last_seen_tx |-> current_tx]

\* Reconcile with the fold an assignment: baseline = last_seen for +=.
ReconcileAssign(row, current_rx, current_tx) ==
    [baseline_rx |-> IF current_rx < row.last_seen_rx
                     THEN row.last_seen_rx ELSE row.baseline_rx,
     baseline_tx |-> IF current_tx < row.last_seen_tx
                     THEN row.last_seen_tx ELSE row.baseline_tx,
     last_seen_rx |-> current_rx,
     last_seen_tx |-> current_tx]

\* Reconcile leaving last_seen as it was in a direction it folds.
ReconcileStale(row, current_rx, current_tx) ==
    [baseline_rx |-> IF current_rx < row.last_seen_rx
                     THEN row.baseline_rx + row.last_seen_rx ELSE row.baseline_rx,
     baseline_tx |-> IF current_tx < row.last_seen_tx
                     THEN row.baseline_tx + row.last_seen_tx ELSE row.baseline_tx,
     last_seen_rx |-> IF current_rx < row.last_seen_rx
                      THEN row.last_seen_rx ELSE current_rx,
     last_seen_tx |-> IF current_tx < row.last_seen_tx
                      THEN row.last_seen_tx ELSE current_tx]

\* The reset detection and the new counter values for one reading.
Reconcile(row, current_rx, current_tx) ==
    [baseline_rx |-> IF current_rx < row.last_seen_rx
                     THEN row.baseline_rx + row.last_seen_rx ELSE row.baseline_rx,
     baseline_tx |-> IF current_tx < row.last_seen_tx
                     THEN row.baseline_tx + row.last_seen_tx ELSE row.baseline_tx,
     last_seen_rx |-> current_rx,
     last_seen_tx |-> current_tx]

\* INSERT OR REPLACE INTO traffic_cumulative (primary key public_key)
InsertOrReplaceCumulative(cum, pk, c) ==
    {r \in cum : r.public_key # pk}
    \cup {[public_key |-> pk, baseline_rx |-> c.baseline_rx, baseline_tx |-> c.baseline_tx,
           last_seen_rx |-> c.last_seen_rx, last_seen_tx |-> c.last_seen_tx]}

\* UpsertDaily adding to the row of the day where it should overwrite it.
UpsertDailySum(day, pk, date, total_rx, total_tx) ==
    IF \E r \in day : r.public_key = pk /\ r.date = date
    THEN {IF r.public_key = pk /\ r.date = date
          THEN [r EXCEPT !.rx_bytes = @ + total_rx, !.tx_bytes = @ + total_tx]
          ELSE r : r \in day}
    ELSE day \cup {[public_key |-> pk, date |-> date,
                    rx_bytes |-> total_rx, tx_bytes |-> total_tx]}

\* INSERT INTO traffic_daily ... ON CONFLICT(public_key, date) DO UPDATE SET ...
UpsertDaily(day, pk, date, total_rx, total_tx) ==
    IF \E r \in day : r.public_key = pk /\ r.date = date
    THEN {IF r.public_key = pk /\ r.date = date
          THEN [r EXCEPT !.rx_bytes = total_rx, !.tx_bytes = total_tx]
          ELSE r : r \in day}
    ELSE day \cup {[public_key |-> pk, date |-> date,
                    rx_bytes |-> total_rx, tx_bytes |-> total_tx]}

\* ReconcileLine writing the raw reading, without the baseline, to the day.
ReconcileLineRaw(st, parts, date) ==
    LET pubkey == parts[1]
        c == Reconcile(LoadCounter(st.cum, pubkey), parts[6], parts[7])
    IN [raised |-> FALSE,
        cum |-> InsertOrReplaceCumulative(st.cum, pubkey, c),
        day |-> UpsertDaily(st.day, pubkey, date, c.last_seen_rx, c.last_seen_tx)]

\* ReconcileLine for the peers of the client directories only.
ReconcileLineMapped(st, parts, date) ==
    IF parts[1] \notin {c.publickey : c \in clients} THEN st
    ELSE LET pubkey == parts[1]
             c == Reconcile(LoadCounter(st.cum, pubkey), parts[6], parts[7])
         IN [raised |-> FALSE,
             cum |-> InsertOrReplaceCumulative(st.cum, pubkey, c),
             day |-> UpsertDaily(st.day, pubkey, date,
                                 c.baseline_rx + c.last_seen_rx,
                                 c.baseline_tx + c.last_seen_tx)]

\* The body of the loop for one line that has its 8 fields and its integers.
ReconcileLine(st, parts, date) ==
    LET pubkey == parts[1]
        c == Reconcile(LoadCounter(st.cum, pubkey), parts[6], parts[7])
    IN [raised |-> FALSE,
        cum |-> InsertOrReplaceCumulative(st.cum, pubkey, c),
        day |-> UpsertDaily(st.day, pubkey, date,
                            c.baseline_rx + c.last_seen_rx,
                            c.baseline_tx + c.last_seen_tx)]

\* for line in lines[1:]: the writes of one connection, in order; int() of a
\* field that is no integer raises and ends the loop.
RECURSIVE SnapshotLoop(_, _, _)
SnapshotLoop(lines, st, date) ==
    IF lines = <<>> THEN st
    ELSE LET parts == Head(lines) IN
         IF Len(parts) < 8 THEN SnapshotLoop(Tail(lines), st, date)
         ELSE IF ~IsInt(parts[6]) \/ ~IsInt(parts[7])
              THEN [st EXCEPT !.raised = TRUE]
              ELSE SnapshotLoop(Tail(lines), ReconcileLine(st, parts, date), date)

\* snapshot_traffic without the test of result.success.
snapshot_traffic_unchecked(result, cum, day, date) ==
    LET st == SnapshotLoop(DropHeader(SplitLines(result.output)),
                           [raised |-> FALSE, cum |-> cum, day |-> day], date)
    IN IF st.raised
       THEN [ret |-> "raised", cum |-> cum, day |-> day]
       ELSE [ret |-> "output", cum |-> st.cum, day |-> st.day]

\* snapshot_traffic keeping the writes made before the loop raised.
snapshot_traffic_partial(result, cum, day, date) ==
    IF ~result.success
    THEN [ret |-> "None", cum |-> cum, day |-> day]
    ELSE LET st == SnapshotLoop(DropHeader(SplitLines(result.output)),
                                [raised |-> FALSE, cum |-> cum, day |-> day], date)
         IN IF st.raised
            THEN [ret |-> "raised", cum |-> st.cum, day |-> st.day]
            ELSE [ret |-> "output", cum |-> st.cum, day |-> st.day]

\* snapshot_traffic(): ret is "None", "output" (the dump is returned) or
\* "raised"; cum and day are the tables as committed. The connection is
\* closed without a commit when the loop raises, which rolls its writes back.
snapshot_traffic(result, cum, day, date) ==
    IF ~result.success
    THEN [ret |-> "None", cum |-> cum, day |-> day]
    ELSE LET st == SnapshotLoop(DropHeader(SplitLines(result.output)),
                                [raised |-> FALSE, cum |-> cum, day |-> day], date)
         IN IF st.raised
            THEN [ret |-> "raised", cum |-> cum, day |-> day]
            ELSE [ret |-> "output", cum |-> st.cum, day |-> st.day]

\* ------------------------------------------------------------ traffic report
\* _get_peer_to_user_map(): public key -> name of the client directory.
PeerToUserMap(cl) ==
    [pk \in {c.publickey : c \in cl} |-> (CHOOSE c \in cl : c.publickey = pk).name]

\* pubkey[:16] + "..."
Abbreviated(pubkey) == IF pubkey = "k1" THEN "k1..." ELSE "k2..."

\* PeerTraffic(...) of one line that has its 8 fields and its integers.
ParsedPeer(parts, peer_map) ==
    [username |-> IF parts[1] \in DOMAIN peer_map
                  THEN peer_map[parts[1]] ELSE Abbreviated(parts[1]),
     public_key |-> parts[1],
     endpoint |-> IF parts[3] # "(none)" THEN parts[3] ELSE "",
     allowed_ips |-> parts[4],
     latest_handshake |-> parts[5],
     rx_bytes |-> parts[6],
     tx_bytes |-> parts[7]]

\* ParseLoop with the field test len(parts) <= 8.
RECURSIVE ParseLoopStrict(_, _, _)
ParseLoopStrict(lines, peer_map, peers) ==
    IF lines = <<>> THEN [raised |-> FALSE, peers |-> peers]
    ELSE LET parts == Head(lines) IN
         IF Len(parts) <= 8 THEN ParseLoopStrict(Tail(lines), peer_map, peers)
         ELSE IF ~IsInt(parts[5]) \/ ~IsInt(parts[6]) \/ ~IsInt(parts[7])
              THEN [raised |-> TRUE, peers |-> <<>>]
              ELSE ParseLoopStrict(Tail(lines), peer_map,
                                   Append(peers, ParsedPeer(parts, peer_map)))

RECURSIVE ParseLoop(_, _, _)
ParseLoop(lines, peer_map, peers) ==
    IF lines = <<>> THEN [raised |-> FALSE, peers |-> peers]
    ELSE LET parts == Head(lines) IN
         IF Len(parts) < 8 THEN ParseLoop(Tail(lines), peer_map, peers)
         ELSE IF ~IsInt(parts[5]) \/ ~IsInt(parts[6]) \/ ~IsInt(parts[7])
              THEN [raised |-> TRUE, peers |-> <<>>]
              ELSE ParseLoop(Tail(lines), peer_map,
                             Append(peers, ParsedPeer(parts, peer_map)))

\* _parse_wg_dump(dump_output, peer_map)
parse_wg_dump(dump_output, peer_map) ==
    LET lines == SplitLines(dump_output) IN
    IF Len(lines) < 2 THEN [raised |-> FALSE, peers |-> <<>>]
    ELSE ParseLoop(DropHeader(lines), peer_map, <<>>)

\* p.rx_bytes += row[0]; p.tx_bytes += row[1] when the peer has a counter row
AddBaseline(p, cum) ==
    IF CounterRows(cum, p.public_key) = {} THEN p
    ELSE LET row == LoadCounter(cum, p.public_key)
         IN [p EXCEPT !.rx_bytes = @ + row.baseline_rx, !.tx_bytes = @ + row.baseline_tx]

\* peers.sort(key=rx+tx, reverse=True): stable, equal totals keep their order.
RECURSIVE SortByTotal(_)
SortByTotal(peers) ==
    IF peers = <<>> THEN <<>>
    ELSE LET rest == SortByTotal(SubSeq(peers, 1, Len(peers) - 1))
             p == peers[Len(peers)]
             before == {i \in 1..Len(rest) :
                          rest[i].rx_bytes + rest[i].tx_bytes >= p.rx_bytes + p.tx_bytes}
             n == Cardinality(before)
         IN SubSeq(rest, 1, n) \o <<p>> \o SubSeq(rest, n + 1, Len(rest))

\* get_traffic_stats(): the snapshot, then the parse of the dump it returned.
get_traffic_stats(result, cum, day, date, cl) ==
    LET peer_map == PeerToUserMap(cl)
        snap == snapshot_traffic(result, cum, day, date)
        parsed == IF snap.ret = "output"
                  THEN parse_wg_dump(result.output, peer_map)
                  ELSE [raised |-> FALSE, peers |-> <<>>]
        known == SelectSeq(parsed.peers, LAMBDA p : p.public_key \in DOMAIN peer_map)
        summed == [i \in 1..Len(known) |-> AddBaseline(known[i], snap.cum)]
    IN [snap |-> snap,
        parsed |-> parsed,
        raised |-> snap.ret = "raised" \/ parsed.raised,
        stats |-> IF snap.ret = "output" /\ ~parsed.raised
                  THEN [success |-> TRUE, peers |-> SortByTotal(summed)]
                  ELSE [success |-> FALSE, peers |-> <<>>]]

\* ------------------------------------------------------------ monthly usage
Max(a, b) == IF a >= b THEN a ELSE b
\* fetchone(): no row (the empty set) or one row
FetchOne(rows) == IF rows = {} THEN {} ELSE {CHOOSE r \in rows : TRUE}
\* the dates of the peer's rows WHERE date >= month_start
MonthDates(day, pk, month_start) ==
    {r.date : r \in {q \in day : q.public_key = pk /\ DateLeq(month_start, q.date)}}
MinDate(ds) == CHOOSE d \in ds : \A e \in ds : DateLeq(d, e)
MaxDate(ds) == CHOOSE d \in ds : \A e \in ds : DateLeq(e, d)
\* SELECT rx_bytes, tx_bytes FROM traffic_daily WHERE public_key = ? AND date = ?
DailyRow(day, pk, date) == FetchOne({r \in day : r.public_key = pk /\ r.date = date})
\* ... WHERE public_key = ? AND date < ? ORDER BY date DESC LIMIT 1
PrevRow(day, pk, month_start) ==
    LET before == {r \in day : r.public_key = pk /\ DateLess(r.date, month_start)}
    IN {r \in before : \A q \in before : DateLeq(q.date, r.date)}

\* PeerUsage measuring several in-month rows from the first of them even
\* when a row before the month exists.
PeerUsageFromFirst(day, pk, month_start) ==
    LET first_date == MinDate(MonthDates(day, pk, month_start))
        last_date == MaxDate(MonthDates(day, pk, month_start))
        prev == FetchOne(PrevRow(day, pk, month_start))
    IN IF first_date = last_date
       THEN LET row == CHOOSE r \in DailyRow(day, pk, last_date) : TRUE IN
            IF prev # {}
            THEN LET pr == CHOOSE r \in prev : TRUE
                 IN Max((row.rx_bytes - pr.rx_bytes) + (row.tx_bytes - pr.tx_bytes), 0)
            ELSE row.rx_bytes + row.tx_bytes
       ELSE LET first_row == CHOOSE r \in DailyRow(day, pk, first_date) : TRUE
                last_row == CHOOSE r \in DailyRow(day, pk, last_date) : TRUE
            IN Max((last_row.rx_bytes - first_row.rx_bytes)
                   + (last_row.tx_bytes - first_row.tx_bytes), 0)

\* PeerUsage counting the whole total of the latest row when several in-month
\* rows have no row before the month.
PeerUsageWholeTotal(day, pk, month_start) ==
    LET first_date == MinDate(MonthDates(day, pk, month_start))
        last_date == MaxDate(MonthDates(day, pk, month_start))
        prev == FetchOne(PrevRow(day, pk, month_start))
        last_row == CHOOSE r \in DailyRow(day, pk, last_date) : TRUE
    IN IF prev # {}
       THEN LET pr == CHOOSE r \in prev : TRUE
            IN Max((last_row.rx_bytes - pr.rx_bytes)
                   + (last_row.tx_bytes - pr.tx_bytes), 0)
       ELSE last_row.rx_bytes + last_row.tx_bytes

\* PeerUsage without max(..., 0).
PeerUsageNoFloor(day, pk, month_start) ==
    LET first_date == MinDate(MonthDates(day, pk, month_start))
        last_date == MaxDate(MonthDates(day, pk, month_start))
        prev == FetchOne(PrevRow(day, pk, month_start))
    IN IF first_date = last_date
       THEN LET row == CHOOSE r \in DailyRow(day, pk, last_date) : TRUE IN
            IF prev # {}
            THEN LET pr == CHOOSE r \in prev : TRUE
                 IN (row.rx_bytes - pr.rx_bytes) + (row.tx_bytes - pr.tx_bytes)
            ELSE row.rx_bytes + row.tx_bytes
       ELSE LET first_row == CHOOSE r \in DailyRow(day, pk, first_date) : TRUE
                last_row == CHOOSE r \in DailyRow(day, pk, last_date) : TRUE
                base == IF prev # {} THEN CHOOSE r \in prev : TRUE ELSE first_row
            IN (last_row.rx_bytes - base.rx_bytes)
               + (last_row.tx_bytes - base.tx_bytes)

\* The usage of one peer that has rows in the month.
PeerUsage(day, pk, month_start) ==
    LET first_date == MinDate(MonthDates(day, pk, month_start))
        last_date == MaxDate(MonthDates(day, pk, month_start))
        prev == FetchOne(PrevRow(day, pk, month_start))
    IN IF first_date = last_date
       THEN LET row == CHOOSE r \in DailyRow(day, pk, last_date) : TRUE IN
            IF prev # {}
            THEN LET pr == CHOOSE r \in prev : TRUE
                 IN Max((row.rx_bytes - pr.rx_bytes) + (row.tx_bytes - pr.tx_bytes), 0)
            ELSE row.rx_bytes + row.tx_bytes
       ELSE LET first_row == CHOOSE r \in DailyRow(day, pk, first_date) : TRUE
                last_row == CHOOSE r \in DailyRow(day, pk, last_date) : TRUE
                base == IF prev # {} THEN CHOOSE r \in prev : TRUE ELSE first_row
            IN Max((last_row.rx_bytes - base.rx_bytes)
                   + (last_row.tx_bytes - base.tx_bytes), 0)

\* get_monthly_usage(): {public_key: bytes this month} of the mapped peers
\* that have a row dated in the current month.
get_monthly_usage(day, cl, now) ==
    LET peer_map == PeerToUserMap(cl)
        month_start == MonthStart(now)
        grouped == {pk \in {r.public_key : r \in day} :
                       MonthDates(day, pk, month_start) # {}}
    IN [pk \in grouped \cap DOMAIN peer_map |-> PeerUsage(day, pk, month_start)]

\* monthly.get(pubkey, 0): what the callers of get_monthly_usage() read for a
\* peer, 0 when the dictionary has no entry for it.
MonthlyGet(monthly, pubkey) ==
    IF pubkey \in DOMAIN monthly THEN monthly[pubkey] ELSE 0

\* -------------------------------------------------------------- quota check
\* 1024 ** 3 bytes, in the unit in which the interface counters are counted
\* here: a third of a GiB.
GiB == 3
\* limit_bytes = settings.wg_traffic_limit_gb * 1024 ** 3
LimitBytes(cfg) == cfg.wg_traffic_limit_gb * GiB
\* Sorted leaving the list in the order of the setting.
AsWritten(seq) == seq

\* sorted(...): ascending, equal values kept.
RECURSIVE Sorted(_)
Sorted(seq) ==
    IF seq = <<>> THEN <<>>
    ELSE LET rest == Sorted(Tail(seq))
             n == Cardinality({i \in 1..Len(rest) : rest[i] < Head(seq)})
         IN SubSeq(rest, 1, n) \o <<Head(seq)>> \o SubSeq(rest, n + 1, Len(rest))
\* datetime.utcnow().strftime("%Y-%m")
Month(d) == d[1]
\* pct = (used / limit_bytes) * 100 if limit_bytes else 0, and pct < threshold,
\* in exact arithmetic.
PctBelow(used, limit_bytes, threshold) ==
    IF limit_bytes # 0 THEN used * 100 < threshold * limit_bytes
    ELSE 0 < threshold
\* Already with the month left out of the WHERE clause.
AlreadyAnyMonth(al, pubkey, month, threshold) ==
    \E r \in al : r.public_key = pubkey /\ r.threshold = threshold
\* SELECT 1 FROM traffic_alerts WHERE public_key = ? AND month = ? AND threshold = ?
Already(al, pubkey, month, threshold) ==
    \E r \in al : r.public_key = pubkey /\ r.month = month /\ r.threshold = threshold
\* INSERT INTO traffic_alerts (public_key, month, threshold, alerted_at);
\* alerted_at is datetime.utcnow().isoformat(), of which the date is kept.
InsertAlert(al, pubkey, month, threshold, now) ==
    al \cup {[public_key |-> pubkey, month |-> month, threshold |-> threshold,
              alerted_at |-> now]}

\* PRIMARY KEY (public_key, month, threshold): the INSERT of a key that has a
\* row raises sqlite3.IntegrityError.
IntegrityError(al, pubkey, month, threshold) ==
    \E r \in al : r.public_key = pubkey /\ r.month = month /\ r.threshold = threshold

\* ThresholdLoop without the test of the rows already in traffic_alerts, the
\* table taking a second row for a key.
RECURSIVE ThresholdLoopNoDedup(_, _, _, _, _, _, _)
ThresholdLoopNoDedup(thresholds, pubkey, username, used, limit_bytes, now, st) ==
    IF thresholds = <<>> THEN st
    ELSE LET threshold == Head(thresholds) IN
         IF PctBelow(used, limit_bytes, threshold) THEN st
         ELSE ThresholdLoopNoDedup(Tail(thresholds), pubkey, username, used,
                                   limit_bytes, now,
                     [alerts |-> InsertAlert(st.alerts, pubkey, Month(now),
                                             threshold, now),
                      gate |-> IF threshold >= 100
                               THEN Append(st.gate, pubkey) ELSE st.gate,
                      raised |-> FALSE,
                      events |-> Append(st.events,
                          [username |-> username, public_key |-> pubkey,
                           usage |-> used, limit |-> limit_bytes,
                           pct |-> threshold,
                           action |-> IF threshold >= 100
                                      THEN "blocked" ELSE "warn"])])

\* ThresholdLoop blocking only above 100 percent.
RECURSIVE ThresholdLoopAbove(_, _, _, _, _, _, _)
ThresholdLoopAbove(thresholds, pubkey, username, used, limit_bytes, now, st) ==
    IF thresholds = <<>> THEN st
    ELSE LET threshold == Head(thresholds) IN
         IF PctBelow(used, limit_bytes, threshold) THEN st
         ELSE IF Already(st.alerts, pubkey, Month(now), threshold)
              THEN ThresholdLoopAbove(Tail(thresholds), pubkey, username, used,
                                 limit_bytes, now, st)
              ELSE ThresholdLoopAbove(Tail(thresholds), pubkey, username, used,
                                 limit_bytes, now,
                     [alerts |-> InsertAlert(st.alerts, pubkey, Month(now),
                                             threshold, now),
                      gate |-> IF threshold > 100
                               THEN Append(st.gate, pubkey) ELSE st.gate,
                      raised |-> FALSE,
                      events |-> Append(st.events,
                          [username |-> username, public_key |-> pubkey,
                           usage |-> used, limit |-> limit_bytes,
                           pct |-> threshold,
                           action |-> IF threshold > 100
                                      THEN "blocked" ELSE "warn"])])

\* ThresholdLoop writing no row of traffic_alerts for the thresholds that block.
RECURSIVE ThresholdLoopUnrecorded(_, _, _, _, _, _, _)
ThresholdLoopUnrecorded(thresholds, pubkey, username, used, limit_bytes, now, st) ==
    IF thresholds = <<>> THEN st
    ELSE LET threshold == Head(thresholds) IN
         IF PctBelow(used, limit_bytes, threshold) THEN st
         ELSE IF Already(st.alerts, pubkey, Month(now), threshold)
              THEN ThresholdLoopUnrecorded(Tail(thresholds), pubkey, username, used,
                                 limit_bytes, now, st)
              ELSE ThresholdLoopUnrecorded(Tail(thresholds), pubkey, username, used,
                                 limit_bytes, now,
                     [alerts |-> IF threshold >= 100 THEN st.alerts
                                 ELSE InsertAlert(st.alerts, pubkey, Month(now),
                                                  threshold, now),
                      gate |-> IF threshold >= 100
                               THEN Append(st.gate, pubkey) ELSE st.gate,
                      raised |-> FALSE,
                      events |-> Append(st.events,
                          [username |-> username, public_key |-> pubkey,
                           usage |-> used, limit |-> limit_bytes,
                           pct |-> threshold,
                           action |-> IF threshold >= 100
                                      THEN "blocked" ELSE "warn"])])

\* ThresholdLoop writing a row of traffic_alerts only for the thresholds that block.
RECURSIVE ThresholdLoopBlocksOnly(_, _, _, _, _, _, _)
ThresholdLoopBlocksOnly(thresholds, pubkey, username, used, limit_bytes, now, st) ==
    IF thresholds = <<>> THEN st
    ELSE LET threshold == Head(thresholds) IN
         IF PctBelow(used, limit_bytes, threshold) THEN st
         ELSE IF Already(st.alerts, pubkey, Month(now), threshold)
              THEN ThresholdLoopBlocksOnly(Tail(thresholds), pubkey, username, used,
                                 limit_bytes, now, st)
              ELSE ThresholdLoopBlocksOnly(Tail(thresholds), pubkey, username, used,
                                 limit_bytes, now,
                     [alerts |-> IF threshold < 100 THEN st.alerts
                                 ELSE InsertAlert(st.alerts, pubkey, Month(now),
                                                  threshold, now),
                      gate |-> IF threshold >= 100
                               THEN Append(st.gate, pubkey) ELSE st.gate,
                      raised |-> FALSE,
                      events |-> Append(st.events,
                          [username |-> username, public_key |-> pubkey,
                           usage |-> used, limit |-> limit_bytes,
                           pct |-> threshold,
                           action |-> IF threshold >= 100
                                      THEN "blocked" ELSE "warn"])])

\* ThresholdLoop without the SELECT: every threshold reached is inserted.
RECURSIVE ThresholdLoopNoSelect(_, _, _, _, _, _, _)
ThresholdLoopNoSelect(thresholds, pubkey, username, used, limit_bytes, now, st) ==
    IF thresholds = <<>> \/ st.raised THEN st
    ELSE LET threshold == Head(thresholds) IN
         IF PctBelow(used, limit_bytes, threshold) THEN st
         ELSE IF IntegrityError(st.alerts, pubkey, Month(now), threshold)
              THEN [st EXCEPT !.raised = TRUE]
              ELSE ThresholdLoopNoSelect(Tail(thresholds), pubkey, username, used,
                                 limit_bytes, now,
                     [alerts |-> InsertAlert(st.alerts, pubkey, Month(now),
                                             threshold, now),
                      gate |-> IF threshold >= 100
                               THEN Append(st.gate, pubkey) ELSE st.gate,
                      raised |-> FALSE,
                      events |-> Append(st.events,
                          [username |-> username, public_key |-> pubkey,
                           usage |-> used, limit |-> limit_bytes,
                           pct |-> threshold,
                           action |-> IF threshold >= 100
                                      THEN "blocked" ELSE "warn"])])

\* for threshold in thresholds: st holds the alert rows written on the
\* connection, the events so far, the peers disable_peer() was called for and
\* whether the INSERT raised, which ends the loops.
RECURSIVE ThresholdLoop(_, _, _, _, _, _, _)
ThresholdLoop(thresholds, pubkey, username, used, limit_bytes, now, st) ==
    IF thresholds = <<>> \/ st.raised THEN st
    ELSE LET threshold == Head(thresholds) IN
         IF PctBelow(used, limit_bytes, threshold) THEN st
         ELSE IF Already(st.alerts, pubkey, Month(now), threshold)
              THEN ThresholdLoop(Tail(thresholds), pubkey, username, used,
                                 limit_bytes, now, st)
              ELSE IF IntegrityError(st.alerts, pubkey, Month(now), threshold)
              THEN [st EXCEPT !.raised = TRUE]
              ELSE ThresholdLoop(Tail(thresholds), pubkey, username, used,
                                 limit_bytes, now,
                     [alerts |-> InsertAlert(st.alerts, pubkey, Month(now),
                                             threshold, now),
                      gate |-> IF threshold >= 100
                               THEN Append(st.gate, pubkey) ELSE st.gate,
                      raised |-> FALSE,
                      events |-> Append(st.events,
                          [username |-> username, public_key |-> pubkey,
                           usage |-> used, limit |-> limit_bytes,
                           pct |-> threshold,
                           action |-> IF threshold >= 100
                                      THEN "blocked" ELSE "warn"])])

\* for pubkey, used in usage_map.items(): peers without a user name are skipped.
RECURSIVE UsageLoop(_, _, _, _, _, _, _)
UsageLoop(pubkeys, usage_map, peer_map, thresholds, limit_bytes, now, st) ==
    IF pubkeys = <<>> \/ st.raised THEN st
    ELSE LET pubkey == Head(pubkeys) IN
         IF pubkey \notin DOMAIN peer_map
         THEN UsageLoop(Tail(pubkeys), usage_map, peer_map, thresholds,
                        limit_bytes, now, st)
         ELSE UsageLoop(Tail(pubkeys), usage_map, peer_map, thresholds,
                        limit_bytes, now,
                        ThresholdLoop(thresholds, pubkey, peer_map[pubkey],
                                      usage_map[pubkey], limit_bytes, now, st))

\* check_traffic_limits over every peer that has a row in the month, with or
\* without a client directory.
RECURSIVE EveryPeerLoop(_, _, _, _, _, _)
EveryPeerLoop(pubkeys, day, thresholds, limit_bytes, now, st) ==
    IF pubkeys = <<>> THEN st
    ELSE EveryPeerLoop(Tail(pubkeys), day, thresholds, limit_bytes, now,
                       ThresholdLoop(thresholds, Head(pubkeys),
                                     Abbreviated(Head(pubkeys)),
                                     PeerUsage(day, Head(pubkeys), MonthStart(now)),
                                     limit_bytes, now, st))
check_traffic_limits_every_peer(cfg, cl, day, al, now) ==
    IF cfg.wg_traffic_limit_gb = 0
    THEN [events |-> <<>>, alerts |-> al, gate |-> <<>>, raised |-> FALSE]
    ELSE EveryPeerLoop(SelectSeq(PeerOrder,
                           LAMBDA pk : MonthDates(day, pk, MonthStart(now)) # {}),
                       day, Sorted(cfg.wg_traffic_alert_pct), LimitBytes(cfg), now,
                       [events |-> <<>>, alerts |-> al, gate |-> <<>>, raised |-> FALSE])

\* check_traffic_limits without the return on a limit of 0.
check_traffic_limits_always(cfg, cl, day, al, now) ==
    LET usage_map == get_monthly_usage(day, cl, now)
    IN UsageLoop(SelectSeq(PeerOrder, LAMBDA pk : pk \in DOMAIN usage_map),
                 usage_map, PeerToUserMap(cl), Sorted(cfg.wg_traffic_alert_pct),
                 LimitBytes(cfg), now,
                 [events |-> <<>>, alerts |-> al, gate |-> <<>>, raised |-> FALSE])

\* try: ... conn.commit() finally: conn.close(): an exception leaves the
\* table as it was and no events are returned.
CommitOrClose(al, st) ==
    IF st.raised THEN [st EXCEPT !.alerts = al, !.events = <<>>] ELSE st

\* check_traffic_limits(): the events returned, the alert table as
\* committed, the peers disable_peer() was called for, in order, and
\* whether it raised.
check_traffic_limits(cfg, cl, day, al, now) ==
    IF cfg.wg_traffic_limit_gb = 0
    THEN [events |-> <<>>, alerts |-> al, gate |-> <<>>, raised |-> FALSE]
    ELSE LET usage_map == get_monthly_usage(day, cl, now)
         IN CommitOrClose(al,
              UsageLoop(SelectSeq(PeerOrder, LAMBDA pk : pk \in DOMAIN usage_map),
                        usage_map, PeerToUserMap(cl), Sorted(cfg.wg_traffic_alert_pct),
                        LimitBytes(cfg), now,
                        [events |-> <<>>, alerts |-> al, gate |-> <<>>,
                         raised |-> FALSE]))

\* periodic_traffic_snapshot(): the snapshot, then the quota check unless the
\* snapshot raised or no chat is configured.
periodic_traffic_snapshot(result, cum, day, al, date, cl, cfg) ==
    LET snap == snapshot_traffic(result, cum, day, date)
        checked == snap.ret # "raised" /\ cfg.telegram_chat_id # 0
    IN [snap |-> snap,
        checked |-> checked,
        check |-> IF checked
                  THEN check_traffic_limits(cfg, cl, snap.day, al, date)
                  ELSE [events |-> <<>>, alerts |-> al, gate |-> <<>>, raised |-> FALSE]]

\* ---------------------------------------------------------- traffic history
\* sorted({...}) of a set of dates
RECURSIVE SortedDates(_)
SortedDates(ds) ==
    IF ds = {} THEN <<>>
    ELSE <<MinDate(ds)>> \o SortedDates(ds \ {MinDate(ds)})
\* date_map.get(date, (0, 0)) of a peer
DateMapGet(rows, pk, d) ==
    IF \E r \in rows : r.public_key = pk /\ r.date = d
    THEN LET r == CHOOSE q \in rows : q.public_key = pk /\ q.date = d
         IN [rx |-> r.rx_bytes, tx |-> r.tx_bytes]
    ELSE [rx |-> 0, tx |-> 0]
\* day_peers.sort(key=rx+tx, reverse=True): stable.
RECURSIVE SortByDelta(_)
SortByDelta(peers) ==
    IF peers = <<>> THEN <<>>
    ELSE LET rest == SortByDelta(SubSeq(peers, 1, Len(peers) - 1))
             p == peers[Len(peers)]
             n == Cardinality({i \in 1..Len(rest) : rest[i].rx + rest[i].tx >= p.rx + p.tx})
         IN SubSeq(rest, 1, n) \o <<p>> \o SubSeq(rest, n + 1, Len(rest))
\* The entry of one peer for a date: its row of the date less its row of
\* prev_date, or less (0, 0) when it has no row of prev_date.
DayPeer(rows, peer_map, pk, d, prev_date) ==
    LET cur == DateMapGet(rows, pk, d)
        prev == DateMapGet(rows, pk, prev_date)
    IN [username |-> peer_map[pk],
        rx |-> Max(cur.rx - prev.rx, 0),
        tx |-> Max(cur.tx - prev.tx, 0)]
\* get_traffic_history(days): the rows since days + 1 days ago; for every
\* date among them but the first, the mapped peers that have a row of the
\* date and a delta that is not zero, the largest first.  The peers of a date
\* are visited in the order of the dump.
get_traffic_history(day, cl, now, days) ==
    LET peer_map == PeerToUserMap(cl)
        rows == {r \in day : DaysSince(r.date) >= DaysSince(now) - (days + 1)}
        all_dates == SortedDates({r.date : r \in rows})
        Mapped(d) == SelectSeq(PeerOrder, LAMBDA pk :
                        /\ pk \in DOMAIN peer_map
                        /\ \E r \in rows : r.public_key = pk /\ r.date = d)
        Entries(i) == [k \in 1..Len(Mapped(all_dates[i])) |->
                          DayPeer(rows, peer_map, Mapped(all_dates[i])[k],
                                  all_dates[i], all_dates[i - 1])]
        result == [i \in 1..(Len(all_dates) - 1) |->
                     [date |-> all_dates[i + 1],
                      peers |-> SortByDelta(SelectSeq(Entries(i + 1),
                                    LAMBDA p : p.rx # 0 \/ p.tx # 0))]]
    IN IF rows = {} THEN <<>>
       ELSE SubSeq(result, Max(Len(result) - days + 1, 1), Len(result))

\* The alert an event of check_traffic_limits() announces.
AlertOf(ev, now) == <<ev.public_key, now[1], ev.pct>>
\* The loop of periodic_traffic_snapshot() over the events: one
\* send_message() each, an exception of which is logged and the event
\* dropped.
send_alerts(events, now, b) ==
    IF b.reachable
    THEN [b EXCEPT !.delivered = @ \cup {AlertOf(events[i], now) : i \in 1..Len(events)}]
    ELSE b

\* datetime.utcnow().day
Day(d) == d[2]
\* monthly_reset running enable_all_peers() whatever the day.
monthly_reset_any_day(now, cfg) ==
    [resync |-> TRUE, notify |-> cfg.telegram_chat_id # 0]
\* monthly_reset(): whether enable_all_peers() is called and whether the
\* notification is sent; on a day other than the 1st the job returns at once.
monthly_reset(now, cfg) ==
    IF Day(now) # 1
    THEN [resync |-> FALSE, notify |-> FALSE]
    ELSE [resync |-> TRUE, notify |-> cfg.telegram_chat_id # 0]

\* ------------------------------------------------------------------ state
Zero == [rx |-> 0, tx |-> 0]
\* call: the handler (op), the CommandResult it obtained, what its
\* snapshot_traffic() returned, whether it raised, for get_traffic_stats the
\* parser's records and the dictionary returned, for the periodic job
\* whether check_traffic_limits() ran, the events it returned, the peers it
\* called disable_peer() for and whether that command succeeded, for the
\* user card the dictionary get_monthly_usage() returned, and for the monthly
\* reset whether enable_all_peers() was called and the notification sent;
\* check_raised: check_traffic_limits() raised.
NoCall == [op |-> "idle", result |-> [success |-> FALSE, output |-> <<>>],
           snapshot |-> "idle", raised |-> FALSE,
           parsed |-> [raised |-> FALSE, peers |-> <<>>],
           stats |-> [success |-> FALSE, peers |-> <<>>],
           checked |-> FALSE, events |-> <<>>,
           gate |-> [peers |-> <<>>, success |-> TRUE],
           monthly |-> <<>>, resync |-> FALSE, notified |-> FALSE,
           check_raised |-> FALSE, history |-> <<>>]

\* The handlers that run a pass over the counter store: the periodic job,
\* the /traffic command, the weekly report job and POST /restart-internal.
Tasks == {"periodic_traffic_snapshot", "traffic_command",
          "send_weekly_traffic_report", "restart_internal"}
\* The Bot API reachable, no alert message sent yet.
NoMessages == [reachable |-> TRUE, delivered |-> {}]
\* No coroutine runs and every handler is idle; read holds the CommandResult
\* of `wg show dump` a handler obtained for the pass it is in.
NoTask == [running |-> "none",
           pc |-> [t \in Tasks |-> "idle"],
           read |-> [t \in Tasks |-> [success |-> FALSE, output |-> <<>>]]]

RECURSIVE SumOver(_, _)
SumOver(f, S) ==
    IF S = {} THEN 0
    ELSE LET x == CHOOSE x \in S : TRUE IN f[x].rx + f[x].tx + SumOver(f, S \ {x})

\* Enforcement off: wg_traffic_limit_gb = 0, a chat configured; the list of
\* alert percentages holds 0, which any usage reaches.
Unlimited ==
    [wg_traffic_limit_gb |-> 0, wg_traffic_alert_pct |-> <<0, 100>>,
     telegram_chat_id |-> -100]
\* A limit of one GiB a month with a list of alert percentages, as written in
\* the environment (in any order).
Limited(pcts) ==
    [wg_traffic_limit_gb |-> 1, wg_traffic_alert_pct |-> pcts,
     telegram_chat_id |-> -100]

\* The same limit with TELEGRAM_CHAT_ID not set.
Silent(pcts) ==
    [wg_traffic_limit_gb |-> 1, wg_traffic_alert_pct |-> pcts,
     telegram_chat_id |-> 0]

\* The state at the first start, the counter store empty, for a set of
\* configured peers and the settings; alice owns k1.
InitAs(peers, cfg) ==
    /\ configured = peers
    /\ live = configured
    /\ dev = [pk \in PeerKeys |-> Zero]
    /\ lifetime = [pk \in PeerKeys |-> Zero]
    /\ today = StartDate
    /\ cumulative = {}
    /\ daily = {}
    /\ clients = {[name |-> "alice", publickey |-> "k1"]}
    /\ alerts = {}
    /\ settings = cfg
    /\ call = NoCall
    /\ loop = NoTask
    /\ bot = NoMessages
InitWith(peers) == InitAs(peers, Unlimited)

\* The deployment whose only peer is the client.
Init == InitWith({"k1"})
\* Either deployment: the client alone, or with the infrastructure peer k2.
InitInfra == InitWith({"k1"}) \/ InitWith({"k1", "k2"})
\* The client alone, under a monthly limit.
InitQuota == InitAs({"k1"}, Limited(<<100, 40, 60>>))
\* The client alone, under a monthly limit whose list of alert percentages
\* names one value twice.
InitReset == InitAs({"k1"}, Limited(<<30, 100, 30>>))
\* Two clients, alice owning k1 and bob owning k2, both configured, on the
\* 1st of a month.
InitClients ==
    /\ configured = {"k1", "k2"}
    /\ live = configured
    /\ dev = [pk \in PeerKeys |-> Zero]
    /\ lifetime = [pk \in PeerKeys |-> Zero]
    /\ today = Tomorrow(StartDate)
    /\ cumulative = {}
    /\ daily = {}
    /\ clients = {[name |-> "alice", publickey |-> "k1"],
                  [name |-> "bob", publickey |-> "k2"]}
    /\ alerts = {}
    /\ settings = Unlimited
    /\ call = NoCall
    /\ loop = NoTask
    /\ bot = NoMessages
\* A server with no client yet: no [Peer] block, no client directory.
InitUsers ==
    /\ configured = {}
    /\ live = {}
    /\ dev = [pk \in PeerKeys |-> Zero]
    /\ lifetime = [pk \in PeerKeys |-> Zero]
    /\ today = StartDate
    /\ cumulative = {}
    /\ daily = {}
    /\ clients = {}
    /\ alerts = {}
    /\ settings = Unlimited
    /\ call = NoCall
    /\ loop = NoTask
    /\ bot = NoMessages
\* The client alone, under a monthly limit, no chat configured.
InitSilent == InitAs({"k1"}, Silent(<<50, 100>>))
\* The client and the infrastructure peer, under a monthly limit.
InitQuotaInfra == InitAs({"k1", "k2"}, Limited(<<50, 80, 100>>))

\* A counter store of any contents: for the client, on each of two days
\* before the month and two days of it, no row or a row of any totals.
UsageDates == {<<1, 30>>, <<1, 31>>, <<2, 1>>, <<2, 2>>}
DailyTables ==
    {{[public_key |-> "k1", date |-> d, rx_bytes |-> f[d][1], tx_bytes |-> f[d][2]] :
        d \in DOMAIN f} :
     f \in UNION {[D -> (0..(MaxTraffic - 1)) \X (0..1)] : D \in SUBSET UsageDates}}
InitUsage ==
    /\ configured = {"k1"}
    /\ live = configured
    /\ dev = [pk \in PeerKeys |-> Zero]
    /\ lifetime = [pk \in PeerKeys |-> Zero]
    /\ today \in {<<2, 1>>, <<2, 2>>}
    /\ cumulative = {}
    /\ daily \in DailyTables
    /\ clients = {[name |-> "alice", publickey |-> "k1"]}
    /\ alerts = {}
    /\ settings = Limited(<<80, 100>>)
    /\ call = NoCall
    /\ loop = NoTask
    /\ bot = NoMessages

\* ---------------------------------------------------------------- actions
\* A client moves one byte through the tunnel. The infrastructure peer k2
\* (k2 when no client owns it), when it is live, carries the same byte in
\* the opposite direction: what this node receives from the client it sends
\* on to the external node.
Opposite(dir) == IF dir = "rx" THEN "tx" ELSE "rx"
Carriers(pk, dir) ==
    {<<pk, dir>>}
    \cup (IF "k2" \in live /\ \A c \in clients : c.publickey # "k2"
          THEN {<<"k2", Opposite(dir)>>} ELSE {})
Moved(counters, pk, dir) ==
    [q \in PeerKeys |-> [d \in Directions |->
        IF <<q, d>> \in Carriers(pk, dir) THEN counters[q][d] + 1 ELSE counters[q][d]]]
Traffic(c, dir) ==
    /\ call = NoCall
    /\ c \in clients
    /\ c.publickey \in live
    /\ SumOver(lifetime, {c.publickey}) < MaxTraffic
    /\ dev' = Moved(dev, c.publickey, dir)
    /\ lifetime' = Moved(lifetime, c.publickey, dir)
    /\ UNCHANGED <<loop, bot, configured, live, today, cumulative, daily, clients,
                   alerts, settings, call>>

\* The interface is torn down and brought up again (wg-quick down ; up):
\* every configured peer is back with its counters at zero.
InterfaceRecreated ==
    /\ call = NoCall
    /\ live' = configured
    /\ dev' = [pk \in PeerKeys |-> Zero]
    /\ UNCHANGED <<loop, bot, configured, lifetime, today, cumulative, daily, clients,
                   alerts, settings, call>>

\* restart_internal taking its snapshot after wg-quick down ; wg-quick up.
RestartInternalThenSnapshot ==
    /\ call = NoCall
    /\ \E result \in CommandResults(configured, [pk \in PeerKeys |-> Zero]) :
         \E snap \in {snapshot_traffic(result, cumulative, daily, today)} :
         /\ cumulative' = snap.cum
         /\ daily' = snap.day
         /\ live' = configured
         /\ dev' = [pk \in PeerKeys |-> Zero]
         /\ call' = [NoCall EXCEPT !.op = "restart_internal", !.result = result,
                                    !.snapshot = snap.ret,
                                    !.raised = (snap.ret = "raised")]
    /\ UNCHANGED <<loop, bot, configured, lifetime, today, clients, alerts, settings>>

\* restart_internal(), the /restart_internal command: snapshot_traffic(),
\* then wg-quick down ; wg-quick up, which brings every configured peer back
\* with its counters at zero. An exception of the snapshot ends the handler
\* before the interface is touched.
RestartInternal ==
    /\ call = NoCall
    /\ \E result \in CommandResults(live, dev) :
         \E snap \in {snapshot_traffic(result, cumulative, daily, today)} :
         /\ cumulative' = snap.cum
         /\ daily' = snap.day
         /\ live' = IF snap.ret = "raised" THEN live ELSE configured
         /\ dev' = IF snap.ret = "raised" THEN dev ELSE [pk \in PeerKeys |-> Zero]
         /\ call' = [NoCall EXCEPT !.op = "restart_internal", !.result = result,
                                    !.snapshot = snap.ret,
                                    !.raised = (snap.ret = "raised")]
    /\ UNCHANGED <<loop, bot, configured, lifetime, today, clients, alerts, settings>>

\* Midnight UTC.
NextDay ==
    /\ call = NoCall
    /\ DaysSince(today) + 1 < MaxDays
    /\ today' = Tomorrow(today)
    /\ UNCHANGED <<loop, bot, configured, live, dev, lifetime, cumulative, daily, clients,
                   alerts, settings, call>>

\* button_callback "user_block_<name>": disable_peer(pubkey) removes the
\* peer from the live interface, and with it its counters.
UserBlock(c) ==
    /\ call = NoCall
    /\ c \in clients
    /\ live' = live \ {c.publickey}
    /\ dev' = [dev EXCEPT ![c.publickey] = Zero]
    /\ UNCHANGED <<loop, bot, configured, lifetime, today, cumulative, daily, clients,
                   alerts, settings, call>>

\* enable_peer adding the one peer it was called for.
enable_peer_alone(public_key, cfgd, lv) == lv \cup ({public_key} \cap cfgd)
\* enable_peer(public_key): wg syncconf <(wg-quick strip): the peers of the
\* live interface become those of the configuration; the key is not used.
enable_peer(public_key, cfgd, lv) == cfgd
\* The peers of a set in the order of the dump.
InOrder(S) == SelectSeq(PeerOrder, LAMBDA pk : pk \in S)

\* button_callback "user_unblock_<name>": enable_peer(pubkey), whose command
\* succeeds or fails; call.gate holds the peers the command added to the
\* live interface.
UserUnblock(c) ==
    /\ call = NoCall
    /\ c \in clients
    /\ \E ok \in BOOLEAN :
       \E lv \in {IF ok THEN enable_peer(c.publickey, configured, live) ELSE live} :
         /\ live' = lv
         /\ call' = [NoCall EXCEPT !.op = "user_unblock",
                                    !.gate = [peers |-> InOrder(lv \ live),
                                              success |-> ok]]
    /\ UNCHANGED <<loop, bot, configured, dev, lifetime, today, cumulative, daily, clients,
                   alerts, settings>>

\* delete_user deleting the rows of the peer from the counter store as well.
DeleteUserPurging(c) ==
    /\ call = NoCall
    /\ c \in clients
    /\ configured' = configured \ {c.publickey}
    /\ clients' = clients \ {c}
    /\ cumulative' = {r \in cumulative : r.public_key # c.publickey}
    /\ daily' = {r \in daily : r.public_key # c.publickey}
    /\ \E ok \in BOOLEAN :
         /\ live' = IF ok THEN enable_peer(c.publickey, configured', live) ELSE live
         /\ dev' = [pk \in PeerKeys |-> IF pk \in live' THEN dev[pk] ELSE Zero]
    /\ UNCHANGED <<loop, bot, lifetime, today, alerts, settings, call>>

\* The names /create_user is called with.
Usernames == {"alice", "bob"}
\* generate_keypair(): a key that no [Peer] block and no client directory
\* holds.
NewKeys(cfgd, cl) == PeerKeys \ (cfgd \cup {c.publickey : c \in cl})

\* create_user(username): the key pair is written into the client directory
\* of the name, which may exist (mkdir(exist_ok=True)) and then has its
\* publickey file overwritten; unless the server's public key cannot be read,
\* which raises, a [Peer] block for the new key is appended to the server
\* configuration and wg syncconf makes the live peers those of the
\* configuration when it succeeds.  The address the next-IP file gives the
\* block goes with the key (AllowedIps).
CreateUser(username) ==
    /\ call = NoCall
    /\ username \in Usernames
    /\ \E public_key \in NewKeys(configured, clients), server_key_read \in BOOLEAN :
         /\ clients' = {c \in clients : c.name # username}
                           \cup {[name |-> username, publickey |-> public_key]}
         /\ configured' = IF server_key_read
                           THEN configured \cup {public_key} ELSE configured
         /\ \E ok \in IF server_key_read THEN BOOLEAN ELSE {FALSE} :
              /\ live' = IF ok THEN enable_peer(public_key, configured', live) ELSE live
              /\ dev' = [pk \in PeerKeys |-> IF pk \in live' THEN dev[pk] ELSE Zero]
    /\ UNCHANGED <<loop, bot, lifetime, today, cumulative, daily, alerts, settings, call>>

\* delete_user(username): the [Peer] block of the client is cut out of the
\* server configuration, the client directory is removed, and wg syncconf
\* makes the live peers those of the configuration when it succeeds. The
\* counter store is not opened.
DeleteUser(c) ==
    /\ call = NoCall
    /\ c \in clients
    /\ configured' = configured \ {c.publickey}
    /\ clients' = clients \ {c}
    /\ \E ok \in BOOLEAN :
         /\ live' = IF ok THEN enable_peer(c.publickey, configured', live) ELSE live
         /\ dev' = [pk \in PeerKeys |-> IF pk \in live' THEN dev[pk] ELSE Zero]
    /\ UNCHANGED <<loop, bot, lifetime, today, cumulative, daily, alerts, settings, call>>

\* The periodic job: snapshot_traffic(), then check_traffic_limits(), whose
\* disable_peer() calls remove the peers from the live interface when the
\* command succeeds.
PeriodicTrafficSnapshot ==
    /\ call = NoCall
    /\ \E result \in CommandResults(live, dev) :
         \E out \in {periodic_traffic_snapshot(result, cumulative, daily, alerts,
                                               today, clients, settings)} :
         \E gate_ok \in IF out.check.gate = <<>> THEN {TRUE} ELSE BOOLEAN :
         \E removed \in {IF gate_ok
                          THEN {out.check.gate[i] : i \in 1..Len(out.check.gate)}
                          ELSE {}} :
         /\ cumulative' = out.snap.cum
         /\ daily' = out.snap.day
         /\ alerts' = out.check.alerts
         /\ live' = live \ removed
         /\ dev' = [pk \in PeerKeys |-> IF pk \in removed THEN Zero ELSE dev[pk]]
         /\ call' = [NoCall EXCEPT !.op = "periodic_traffic_snapshot",
                                    !.result = result,
                                    !.snapshot = out.snap.ret,
                                    !.raised = (out.snap.ret = "raised"),
                                    !.checked = out.checked,
                                    !.events = out.check.events,
                                    !.check_raised = out.check.raised,
                                    !.gate = [peers |-> out.check.gate,
                                              success |-> gate_ok]]
         /\ bot' = send_alerts(out.check.events, today, bot)
    /\ UNCHANGED <<loop, configured, lifetime, today, clients, settings>>

\* The daily job monthly_reset(): on the 1st, enable_all_peers() runs
\* wg syncconf, which adds every configured peer that is not live when the
\* command succeeds, and the notification is sent to the configured chat.
MonthlyReset ==
    /\ call = NoCall
    /\ \E out \in {monthly_reset(today, settings)} :
         \E ok \in IF out.resync THEN BOOLEAN ELSE {TRUE} :
         /\ live' = IF out.resync /\ ok THEN configured ELSE live
         /\ call' = [NoCall EXCEPT !.op = "monthly_reset",
                                    !.resync = out.resync,
                                    !.notified = out.notify,
                                    !.gate = [peers |-> <<>>, success |-> ok]]
    /\ UNCHANGED <<loop, bot, configured, dev, lifetime, today, cumulative, daily, clients,
                   alerts, settings>>

\* get_traffic_stats() called by the /traffic command and the weekly report.
GetTrafficStats ==
    /\ call = NoCall
    /\ \E result \in CommandResults(live, dev) :
         \E out \in {get_traffic_stats(result, cumulative, daily, today, clients)} :
         /\ cumulative' = out.snap.cum
         /\ daily' = out.snap.day
         /\ call' = [NoCall EXCEPT !.op = "get_traffic_stats", !.result = result,
                                    !.snapshot = out.snap.ret,
                                    !.raised = out.raised,
                                    !.parsed = out.parsed, !.stats = out.stats]
    /\ UNCHANGED <<loop, bot, configured, live, dev, lifetime, today, clients, alerts, settings>>

\* The job queue runs the weekly report on Sundays: the second day after
\* the start is the Sunday of the days followed.
IsSunday(d) == d = Tomorrow(Tomorrow(StartDate))
\* The weekly job send_weekly_traffic_report(): get_traffic_stats(), then
\* get_traffic_history(7); an exception of the snapshot ends the job before
\* the history is read.
SendWeeklyTrafficReport ==
    /\ call = NoCall
    /\ settings.telegram_chat_id # 0
    /\ IsSunday(today)
    /\ \E result \in CommandResults(live, dev) :
         \E out \in {get_traffic_stats(result, cumulative, daily, today, clients)} :
         /\ cumulative' = out.snap.cum
         /\ daily' = out.snap.day
         /\ call' = [NoCall EXCEPT !.op = "send_weekly_traffic_report",
                                    !.result = result,
                                    !.snapshot = out.snap.ret,
                                    !.raised = out.raised,
                                    !.parsed = out.parsed, !.stats = out.stats,
                                    !.history = IF out.raised THEN <<>>
                                                ELSE get_traffic_history(
                                                       out.snap.day, clients, today,
                                                       HistoryDays)]
    /\ UNCHANGED <<loop, bot, configured, live, dev, lifetime, today, clients, alerts, settings>>

\* button_callback "ucard_<name>": _show_user_card() reads the monthly usage
\* when a limit is set; nothing is written.
ShowUserCard(c) ==
    /\ call = NoCall
    /\ c \in clients
    /\ settings.wg_traffic_limit_gb # 0
    /\ call' = [NoCall EXCEPT !.op = "show_user_card",
                               !.monthly = get_monthly_usage(daily, clients, today)]
    /\ UNCHANGED <<loop, bot, configured, live, dev, lifetime, today, cumulative, daily,
                   clients, alerts, settings>>

\* Handlers run as threads: one may start while another runs.
ReadyInThreads(lp) == TRUE
\* Every handler is an `async def` run by the one event loop of the process
\* (the bot is a task of the loop that serves the HTTP endpoints): a
\* coroutine starts or is resumed only when none runs, and the one that runs
\* keeps the loop until its next await or its return.
Ready(lp) == lp.running = "none"

\* The loop starts a handler. traffic_command first awaits its reply
\* "Collecting traffic stats..."; the jobs and the restart endpoint go
\* straight into snapshot_traffic(), which runs `wg show dump` and opens the
\* connection.
HandlerStarts(t) ==
    /\ Ready(loop)
    /\ loop.pc[t] = "idle"
    /\ IF t = "traffic_command"
       THEN loop' = [loop EXCEPT !.pc[t] = "collecting"]
       ELSE \E result \in CommandResults(live, dev) :
               loop' = [loop EXCEPT !.running = t, !.pc[t] = "reconcile",
                                    !.read[t] = result]
    /\ UNCHANGED <<bot, configured, live, dev, lifetime, today, cumulative, daily,
                   clients, alerts, settings, call>>

\* The loop resumes a handler whose await is done: traffic_command goes into
\* get_traffic_stats() and with it snapshot_traffic(); a handler that
\* awaited the sending of its message returns.
AwaitReturns(t) ==
    /\ Ready(loop)
    /\ loop.pc[t] \in {"collecting", "sending"}
    /\ IF loop.pc[t] = "collecting"
       THEN \E result \in CommandResults(live, dev) :
               loop' = [loop EXCEPT !.running = t, !.pc[t] = "reconcile",
                                    !.read[t] = result]
       ELSE loop' = [loop EXCEPT !.pc[t] = "idle"]
    /\ UNCHANGED <<bot, configured, live, dev, lifetime, today, cumulative, daily,
                   clients, alerts, settings, call>>

\* snapshot_traffic() of a handler reconciles the dump it read and commits,
\* and the handler runs on to its next await or its end: the restart brings
\* the interface down and up and returns, the periodic job enters
\* check_traffic_limits() when a chat is configured, the reports read the
\* store and await the sending of their message. An exception of the
\* snapshot ends the handler.
SnapshotCommits(t) ==
    /\ loop.pc[t] = "reconcile"
    /\ \E snap \in {snapshot_traffic(loop.read[t], cumulative, daily, today)} :
       \E pc \in {IF snap.ret = "raised" \/ t = "restart_internal" THEN "idle"
                  ELSE IF t # "periodic_traffic_snapshot" THEN "sending"
                  ELSE IF settings.telegram_chat_id = 0 THEN "idle"
                  ELSE "enforce"} :
       \E restarted \in {t = "restart_internal" /\ snap.ret # "raised"} :
         /\ cumulative' = snap.cum
         /\ daily' = snap.day
         /\ live' = IF restarted THEN configured ELSE live
         /\ dev' = IF restarted THEN [pk \in PeerKeys |-> Zero] ELSE dev
         /\ loop' = [loop EXCEPT !.pc[t] = pc,
                                  !.read[t] = NoTask.read[t],
                                  !.running = IF pc = "enforce" THEN t ELSE "none"]
    /\ UNCHANGED <<bot, configured, lifetime, today, clients, alerts, settings, call>>

\* check_traffic_limits() of the periodic job commits; the job then awaits
\* the sending of each event, or returns when there is none.
CheckCommits ==
    /\ loop.pc["periodic_traffic_snapshot"] = "enforce"
    /\ \E out \in {check_traffic_limits(settings, clients, daily, alerts, today)} :
       \E gate_ok \in IF out.gate = <<>> THEN {TRUE} ELSE BOOLEAN :
       \E removed \in {IF gate_ok THEN {out.gate[i] : i \in 1..Len(out.gate)}
                        ELSE {}} :
         /\ alerts' = out.alerts
         /\ live' = live \ removed
         /\ dev' = [pk \in PeerKeys |-> IF pk \in removed THEN Zero ELSE dev[pk]]
         /\ loop' = [loop EXCEPT !.pc["periodic_traffic_snapshot"] =
                                      IF out.events = <<>> THEN "idle" ELSE "sending",
                                  !.running = "none"]
         /\ bot' = send_alerts(out.events, today, bot)
    /\ UNCHANGED <<configured, lifetime, today, cumulative, daily, clients,
                   settings, call>>

\* The Bot API stops answering: send_message() raises from now on.
TelegramOutage ==
    /\ call = NoCall
    /\ bot.reachable
    /\ bot' = [bot EXCEPT !.reachable = FALSE]
    /\ UNCHANGED <<loop, configured, live, dev, lifetime, today, cumulative, daily,
                   clients, alerts, settings, call>>

\* The Bot API answers again.
TelegramRecovers ==
    /\ call = NoCall
    /\ ~bot.reachable
    /\ bot' = [bot EXCEPT !.reachable = TRUE]
    /\ UNCHANGED <<loop, configured, live, dev, lifetime, today, cumulative, daily,
                   clients, alerts, settings, call>>

\* The caller is done with what the handler returned or raised.
Return ==
    /\ call # NoCall
    /\ call' = NoCall
    /\ UNCHANGED <<loop, bot, configured, live, dev, lifetime, today, cumulative, daily,
                   clients, alerts, settings>>

Next ==
    \/ \E c \in clients, dir \in Directions : Traffic(c, dir)
    \/ InterfaceRecreated
    \/ NextDay
    \/ \E c \in clients : UserBlock(c)
    \/ \E c \in clients : UserUnblock(c)
    \/ PeriodicTrafficSnapshot
    \/ GetTrafficStats
    \/ Return

Spec == Init /\ [][Next]_vars

\* Both deployments, followed within one calendar day.
NextInfra ==
    \/ \E c \in clients, dir \in Directions : Traffic(c, dir)
    \/ InterfaceRecreated
    \/ \E c \in clients : UserBlock(c)
    \/ \E c \in clients : UserUnblock(c)
    \/ PeriodicTrafficSnapshot
    \/ GetTrafficStats
    \/ Return

SpecInfra == InitInfra /\ [][NextInfra]_vars

\* The deployment under a monthly limit: the periodic job enforces it, the
\* operator restarts the interface and unblocks.
NextQuota ==
    \/ \E c \in clients, dir \in Directions : Traffic(c, dir)
    \/ RestartInternal
    \/ NextDay
    \/ \E c \in clients : UserUnblock(c)
    \/ PeriodicTrafficSnapshot
    \/ Return

SpecQuota == InitQuota /\ [][NextQuota]_vars

\* The same with the infrastructure peer, followed within one calendar day.
NextQuotaInfra ==
    \/ \E c \in clients, dir \in Directions : Traffic(c, dir)
    \/ \E c \in clients : UserUnblock(c)
    \/ PeriodicTrafficSnapshot
    \/ Return

SpecQuotaInfra == InitQuotaInfra /\ [][NextQuotaInfra]_vars

\* get_monthly_usage() over a counter store of any contents.
NextUsage ==
    \/ \E c \in clients : ShowUserCard(c)
    \/ Return

SpecUsage == InitUsage /\ [][NextUsage]_vars

\* The deployment under a monthly limit followed over the turn of the month:
\* the periodic job enforces the limit and the daily job resets the blocks.
NextReset ==
    \/ \E c \in clients, dir \in Directions : Traffic(c, dir)
    \/ NextDay
    \/ PeriodicTrafficSnapshot
    \/ MonthlyReset
    \/ Return

SpecReset == InitReset /\ [][NextReset]_vars

\* Two clients and the operator, followed within the 1st of the month:
\* the clients upload, the operator blocks, unblocks and deletes users and
\* restarts the interface, and the daily reset job runs.
NextClients ==
    \/ \E c \in clients : Traffic(c, "rx")
    \/ \E c \in clients : UserBlock(c)
    \/ \E c \in clients : UserUnblock(c)
    \/ \E c \in clients : DeleteUser(c)
    \/ RestartInternal
    \/ MonthlyReset
    \/ Return

SpecClients == InitClients /\ [][NextClients]_vars

\* The deployment under a monthly limit without a notification chat: the
\* periodic job alone, within one calendar day.
NextSilent ==
    \/ \E c \in clients, dir \in Directions : Traffic(c, dir)
    \/ PeriodicTrafficSnapshot
    \/ Return

SpecSilent == InitSilent /\ [][NextSilent]_vars

\* The periodic job under a monthly limit with a Bot API that fails and
\* recovers, within one calendar day.  The job queue runs the job every
\* interval for as long as the process lives, every run returns, an outage
\* ends, and runs keep falling into the times the API answers.
NextDelivery ==
    \/ \E c \in clients, dir \in Directions : Traffic(c, dir)
    \/ PeriodicTrafficSnapshot
    \/ TelegramOutage
    \/ TelegramRecovers
    \/ Return

SpecDelivery ==
    /\ InitReset
    /\ [][NextDelivery]_vars
    /\ WF_vars(Return)
    /\ SF_vars(TelegramRecovers)
    /\ SF_vars(PeriodicTrafficSnapshot /\ bot.reachable)

\* The deployment with the infrastructure peer followed over the days of a
\* week: the periodic job, the operator blocking and unblocking the client,
\* the weekly report.
NextHistory ==
    \/ \E c \in clients : Traffic(c, "rx")
    \/ NextDay
    \/ \E c \in clients : UserBlock(c)
    \/ \E c \in clients : UserUnblock(c)
    \/ PeriodicTrafficSnapshot
    \/ SendWeeklyTrafficReport
    \/ Return

SpecHistory == InitWith({"k1", "k2"}) /\ [][NextHistory]_vars

\* The operator creating and deleting users, blocking and unblocking them,
\* while the periodic job runs, within one calendar day.
NextUsers ==
    \/ \E username \in Usernames : CreateUser(username)
    \/ \E c \in clients : DeleteUser(c)
    \/ \E c \in clients : UserBlock(c)
    \/ \E c \in clients : UserUnblock(c)
    \/ PeriodicTrafficSnapshot
    \/ Return

SpecUsers == InitUsers /\ [][NextUsers]_vars

\* The handlers that write the counter store, as coroutines of the event
\* loop, each followed from its start through its awaits to its return.
NextLoop ==
    \/ \E c \in clients, dir \in Directions : Traffic(c, dir)
    \/ \E t \in Tasks : HandlerStarts(t)
    \/ \E t \in Tasks : AwaitReturns(t)
    \/ \E t \in Tasks : SnapshotCommits(t)
    \/ CheckCommits

SpecLoop == InitReset /\ [][NextLoop]_vars

\* ================================================================= claims
\* The counter row of a peer as stored, zeros when it has none.
Stored(cum, pk) ==
    IF \E r \in cum : r.public_key = pk
    THEN CHOOSE r \in cum : r.public_key = pk
    ELSE [public_key |-> pk, baseline_rx |-> 0, baseline_tx |-> 0,
          last_seen_rx |-> 0, last_seen_tx |-> 0]
\* baseline + last_seen, the lifetime total the store holds for a peer.
StoredTotal(cum, pk) ==
    [rx |-> Stored(cum, pk).baseline_rx + Stored(cum, pk).last_seen_rx,
     tx |-> Stored(cum, pk).baseline_tx + Stored(cum, pk).last_seen_tx]

\* The lines of a dump after its header that have 8 fields and integer counters.
GoodLines(output) ==
    {output[i] : i \in {j \in 2..Len(output) :
        Len(output[j]) >= 8 /\ output[j][6] # NotInt /\ output[j][7] # NotInt}}
\* The handler that holds the result obtained a dump (exit status 0).
GotDump(c) == c.op # "idle" /\ c.result.success
\* The handler that holds the result committed a snapshot.
Committed(c) == c.op # "idle" /\ c.snapshot = "output"

\* C1: a reconciled reading, a regressed one included, never lowers the
\* lifetime total baseline + last_seen of any peer, in either direction.
C1_TotalsNeverRegress ==
    [][\A pk \in PeerKeys :
          /\ StoredTotal(cumulative', pk).rx >= StoredTotal(cumulative, pk).rx
          /\ StoredTotal(cumulative', pk).tx >= StoredTotal(cumulative, pk).tx]_vars

\* A reading of 1 that followed a reading of 2 was reconciled: total 3.
C1_Witness ==
    /\ Committed(call)
    /\ \E r \in cumulative : r.baseline_rx = 2 /\ r.last_seen_rx = 1

\* C2 (as claimed): a regression in either direction folds both baselines,
\* baseline_rx += last_seen_rx and baseline_tx += last_seen_tx.
C2_FoldsBothDirections ==
    [][\A parts \in GoodLines(call'.result.output) :
          LET old == Stored(cumulative, parts[1])
              new == Stored(cumulative', parts[1])
          IN (call = NoCall /\ Committed(call')
              /\ (parts[6] < old.last_seen_rx \/ parts[7] < old.last_seen_tx))
             => /\ new.baseline_rx = old.baseline_rx + old.last_seen_rx
                /\ new.baseline_tx = old.baseline_tx + old.last_seen_tx]_vars

\* C3 (as claimed): after a committed snapshot the stored lifetime total of
\* every reconciled peer equals the bytes it ever transferred.
C3_TotalIsTrueTotal ==
    Committed(call) =>
        \A parts \in GoodLines(call.result.output) :
            /\ StoredTotal(cumulative, parts[1]).rx = lifetime[parts[1]].rx
            /\ StoredTotal(cumulative, parts[1]).tx = lifetime[parts[1]].tx

\* C3 (amended): the stored lifetime total never exceeds the bytes the peer
\* ever transferred, and after a committed snapshot it equals them in every
\* direction in which no interface recreation has discarded bytes (the live
\* counter still holds all of them).
C3_TotalBoundedByTrueTotal ==
    /\ \A pk \in PeerKeys :
          /\ StoredTotal(cumulative, pk).rx <= lifetime[pk].rx
          /\ StoredTotal(cumulative, pk).tx <= lifetime[pk].tx
    /\ Committed(call) =>
          \A parts \in GoodLines(call.result.output) :
              /\ dev[parts[1]].rx = lifetime[parts[1]].rx
                    => StoredTotal(cumulative, parts[1]).rx = lifetime[parts[1]].rx
              /\ dev[parts[1]].tx = lifetime[parts[1]].tx
                    => StoredTotal(cumulative, parts[1]).tx = lifetime[parts[1]].tx

\* A snapshot after a detected reset: the total is below the true total in
\* one direction and exact in the other.
C3_Witness ==
    /\ Committed(call)
    /\ \E parts \in GoodLines(call.result.output) :
          /\ Stored(cumulative, parts[1]).baseline_rx > 0
          /\ StoredTotal(cumulative, parts[1]).rx < lifetime[parts[1]].rx
          /\ StoredTotal(cumulative, parts[1]).tx = lifetime[parts[1]].tx
          /\ lifetime[parts[1]].tx > 0

\* C4: baseline_rx and baseline_tx of a peer never decrease.
C4_BaselinesNeverDecrease ==
    [][\A pk \in PeerKeys :
          /\ Stored(cumulative', pk).baseline_rx >= Stored(cumulative, pk).baseline_rx
          /\ Stored(cumulative', pk).baseline_tx >= Stored(cumulative, pk).baseline_tx]_vars

\* A second reset was folded into a baseline that was not zero.
C4_Witness ==
    /\ Committed(call)
    /\ \E r \in cumulative : r.baseline_rx = 3 /\ r.last_seen_rx = 0

\* C5: reconciliations on one calendar date leave one row for (peer, date),
\* and it holds the lifetime total of the latest of them, not their sum.
C5_OneRowLatestTotal ==
    /\ \A r1, r2 \in daily :
          (r1.public_key = r2.public_key /\ r1.date = r2.date) => r1 = r2
    /\ Committed(call) =>
          \A parts \in GoodLines(call.result.output) :
              \E r \in daily :
                  /\ r.public_key = parts[1] /\ r.date = today
                  /\ r.rx_bytes = StoredTotal(cumulative, parts[1]).rx
                  /\ r.tx_bytes = StoredTotal(cumulative, parts[1]).tx

\* Totals 2 then 3 were reconciled on the first day: its row holds 3.
C5_Witness ==
    /\ Committed(call)
    /\ today = StartDate
    /\ \E c \in cumulative : c.baseline_rx = 2 /\ c.last_seen_rx = 1
    /\ \E r \in daily : r.date = today /\ r.rx_bytes = 3

\* C6: for a fixed peer the totals of its daily rows do not decrease as the
\* date increases.
C6_DailyNonDecreasing ==
    \A r1, r2 \in daily :
        (r1.public_key = r2.public_key /\ DateLess(r1.date, r2.date))
        => r1.rx_bytes <= r2.rx_bytes /\ r1.tx_bytes <= r2.tx_bytes

\* A reset between two days: the later row is the baseline plus the reading.
C6_Witness ==
    \E r1, r2 \in daily :
        /\ r1.public_key = r2.public_key /\ DateLess(r1.date, r2.date)
        /\ r1.rx_bytes = 2 /\ r2.rx_bytes = 3
        /\ Stored(cumulative, r1.public_key).baseline_rx = 2

\* C7: a handler whose counter dump could not be obtained writes no row, its
\* snapshot_traffic() returns None, and get_traffic_stats reports the failure.
C7_FailureWritesNothing ==
    [][(/\ call = NoCall
        /\ call'.op \in {"periodic_traffic_snapshot", "get_traffic_stats",
                         "restart_internal"}
        /\ ~call'.result.success)
       => /\ cumulative' = cumulative
          /\ daily' = daily
          /\ call'.snapshot = "None"
          /\ ~call'.raised
          /\ call'.op = "get_traffic_stats"
                => call'.stats = [success |-> FALSE, peers |-> <<>>]]_vars

\* A failed command whose stdout held peer lines, the store not empty.
C7_Witness ==
    /\ call.op = "get_traffic_stats"
    /\ ~call.result.success
    /\ GoodLines(call.result.output) # {}
    /\ call.snapshot = "None"
    /\ cumulative # {}

\* C8 (as claimed): whatever is wrong with one line of an obtained dump,
\* nothing is raised and every well-formed line is reconciled and committed.
C8_BadLineNeverAborts ==
    GotDump(call) =>
        /\ ~call.raised
        /\ \A parts \in GoodLines(call.result.output) :
              /\ Stored(cumulative, parts[1]).last_seen_rx = parts[6]
              /\ Stored(cumulative, parts[1]).last_seen_tx = parts[7]
              /\ \E r \in daily : r.public_key = parts[1] /\ r.date = today

\* The lines after the header that have at least 8 fields.
Fielded(output) == {i \in 2..Len(output) : Len(output[i]) >= 8}

InMonthRows(pk) ==
    {r \in daily : r.public_key = pk /\ ~DateLess(r.date, MonthStart(today))}
PreMonthRows(pk) ==
    {r \in daily : r.public_key = pk /\ DateLess(r.date, MonthStart(today))}
Latest(rows) == CHOOSE r \in rows : \A q \in rows : ~DateLess(r.date, q.date)
Earliest(rows) == CHOOSE r \in rows : \A q \in rows : ~DateLess(q.date, r.date)
RowTotal(r) == r.rx_bytes + r.tx_bytes
\* What get_monthly_usage() returns now.
UsageNow == get_monthly_usage(daily, clients, today)

\* C10: with a row before the month, the monthly usage of a client's peer is
\* the total of its latest in-month row minus the total of its latest row
\* before the month, with one in-month row or with several.
C10_UsageFromPreMonthBaseline ==
    \A c \in clients :
        (InMonthRows(c.publickey) # {} /\ PreMonthRows(c.publickey) # {})
        => /\ c.publickey \in DOMAIN UsageNow
           /\ UsageNow[c.publickey] = RowTotal(Latest(InMonthRows(c.publickey)))
                                       - RowTotal(Latest(PreMonthRows(c.publickey)))

\* Several in-month rows after a pre-month row of total 1, the first
\* in-month row already above it.
C10_Witness ==
    \E c \in clients :
        /\ Cardinality(InMonthRows(c.publickey)) >= 2
        /\ PreMonthRows(c.publickey) # {}
        /\ RowTotal(Latest(PreMonthRows(c.publickey))) = 1
        /\ RowTotal(Earliest(InMonthRows(c.publickey))) = 2
        /\ UsageNow[c.publickey] = 2

\* C11: without a row before the month, the monthly usage of a client's peer
\* is the whole total of its only in-month row, and with several in-month
\* rows the latest in-month total minus the earliest in-month total.
C11_UsageWithoutPreMonthBaseline ==
    \A c \in clients :
        LET rows == InMonthRows(c.publickey) IN
        (rows # {} /\ PreMonthRows(c.publickey) = {})
        => /\ c.publickey \in DOMAIN UsageNow
           /\ Cardinality(rows) = 1
                 => UsageNow[c.publickey] = RowTotal(Latest(rows))
           /\ Cardinality(rows) > 1
                 => UsageNow[c.publickey] = RowTotal(Latest(rows))
                                             - RowTotal(Earliest(rows))

\* Two in-month rows of totals 1 and 3, none before the month: usage 2.
C11_Witness ==
    \E c \in clients :
        /\ PreMonthRows(c.publickey) = {}
        /\ Cardinality(InMonthRows(c.publickey)) = 2
        /\ RowTotal(Earliest(InMonthRows(c.publickey))) = 1
        /\ RowTotal(Latest(InMonthRows(c.publickey))) = 3
        /\ UsageNow[c.publickey] = 2

\* C12: a peer none of whose rows is dated on or after the first day of the
\* current month has monthly usage 0, whatever its earlier rows hold.
C12_NoInMonthRowZeroUsage ==
    \A pk \in PeerKeys :
        (\A r \in daily : r.public_key = pk => r.date[1] < today[1])
        => MonthlyGet(UsageNow, pk) = 0

\* A client whose only row is of the month before, with a total of 2.
C12_Witness ==
    \E c \in clients :
        /\ \E r \in daily : r.public_key = c.publickey /\ RowTotal(r) = 2
        /\ \A r \in daily : r.public_key = c.publickey => r.date[1] < today[1]
        /\ MonthlyGet(UsageNow, c.publickey) = 0

\* C13: the monthly usage get_monthly_usage() returns for a peer is never
\* negative, whatever rows the daily table holds: one in-month row or
\* several, with or without a row before the month, totals that decrease
\* with the date included.
C13_UsageNeverNegative ==
    call.op = "show_user_card" =>
        \A pk \in DOMAIN call.monthly : call.monthly[pk] >= 0

\* The floor acted: the row before the month holds more than the latest
\* in-month row, and the usage returned is 0.
C13_Witness ==
    /\ call.op = "show_user_card"
    /\ "k1" \in DOMAIN call.monthly
    /\ call.monthly["k1"] = 0
    /\ PreMonthRows("k1") # {}
    /\ Cardinality(InMonthRows("k1")) = 2
    /\ RowTotal(Latest(InMonthRows("k1"))) < RowTotal(Latest(PreMonthRows("k1")))

\* The rows of traffic_alerts for a peer, a month and a threshold.
AlertRows(al, pk, month, threshold) ==
    {r \in al : r.public_key = pk /\ r.month = month /\ r.threshold = threshold}
\* The thresholds a peer has been alerted for in a month.
AlertedThresholds(al, pk, month) ==
    {r.threshold : r \in {q \in al : q.public_key = pk /\ q.month = month}}
\* The percentages of the events a handler returned, in order.
EventPcts(c) == [i \in 1..Len(c.events) |-> c.events[i].pct]

\* C14: over any sequence of enforcement cycles an event for a (peer, month,
\* threshold) is returned at most once and traffic_alerts holds at most one
\* row for it: every event returned had no row before the cycle and has one
\* after it, no two events of a cycle share peer and threshold, and no row
\* is ever removed.
C14_OneEventPerPeerMonthThreshold ==
    [][/\ alerts \subseteq alerts'
       /\ \A r \in alerts' :
             Cardinality(AlertRows(alerts', r.public_key, r.month, r.threshold)) = 1
       /\ \A i \in 1..Len(call'.events) :
             LET e == call'.events[i] IN
             /\ AlertRows(alerts, e.public_key, today[1], e.pct) = {}
             /\ AlertRows(alerts', e.public_key, today[1], e.pct) # {}
             /\ \A j \in 1..Len(call'.events) :
                   (call'.events[j].public_key = e.public_key
                    /\ call'.events[j].pct = e.pct) => j = i]_vars

\* The third cycle of the example: usage went from under the first threshold
\* past two of the three (40 and 60, usage at 67%), and a cycle with usage
\* unchanged returned no event.
C14_Witness ==
    /\ call.op = "periodic_traffic_snapshot" /\ call.checked
    /\ call.events = <<>>
    /\ settings.wg_traffic_alert_pct = <<100, 40, 60>>
    /\ AlertedThresholds(alerts, "k1", today[1]) = {40, 60}
    /\ MonthlyGet(UsageNow, "k1") = 2

\* The elements of a set of numbers, ascending.
Ascending(S) ==
    [i \in 1..Cardinality(S) |->
        CHOOSE t \in S : Cardinality({x \in S : x < t}) = i - 1]
\* The configured thresholds a usage reaches.
ReachedThresholds(used) ==
    {t \in {settings.wg_traffic_alert_pct[i] :
               i \in 1..Len(settings.wg_traffic_alert_pct)} :
        used * 100 >= t * settings.wg_traffic_limit_gb * GiB}
\* The events a handler returned for a peer, in order.
EventsFor(c, pk) == SelectSeq(c.events, LAMBDA e : e.public_key = pk)

\* C15: an enforcement cycle under a limit returns for every client's peer
\* one event per configured threshold that its usage reaches and that had no
\* row in traffic_alerts for the peer and the month, in ascending order of
\* threshold, each with pct the threshold, the usage and the limit; none
\* when no new threshold is reached.
C15_EventsAreNewlyReachedThresholds ==
    [][(call = NoCall /\ call'.checked /\ settings.wg_traffic_limit_gb # 0)
       => \A c \in clients :
            \A used \in {MonthlyGet(get_monthly_usage(daily', clients, today),
                                    c.publickey)} :
            LET new == {t \in ReachedThresholds(used) :
                           AlertRows(alerts, c.publickey, today[1], t) = {}}
                evs == EventsFor(call', c.publickey)
            IN /\ [i \in 1..Len(evs) |-> evs[i].pct] = Ascending(new)
               /\ \A i \in 1..Len(evs) :
                     /\ evs[i].usage = used
                     /\ evs[i].limit = settings.wg_traffic_limit_gb * GiB
                     /\ evs[i].username = c.name]_vars

\* A cycle returned the events 40 and 60, in that order, from the setting
\* "100,40,60".
C15_Witness ==
    /\ call.op = "periodic_traffic_snapshot" /\ call.checked
    /\ settings.wg_traffic_alert_pct = <<100, 40, 60>>
    /\ EventPcts(call) = <<40, 60>>

\* C16: an event returned has action "blocked" exactly when its threshold is
\* 100 or more and "warn" otherwise; disable_peer() was called in the same
\* invocation once for each blocked event, for its peer and in the order of
\* the events, and for no other; when the command succeeded the peer is off
\* the live interface as the events are returned.
C16_BlockedExactlyFrom100 ==
    call.op = "periodic_traffic_snapshot" =>
        /\ \A i \in 1..Len(call.events) :
              /\ call.events[i].action \in {"blocked", "warn"}
              /\ call.events[i].action = "blocked" <=> call.events[i].pct >= 100
        /\ LET blocked == SelectSeq(call.events, LAMBDA e : e.action = "blocked")
           IN call.gate.peers = [i \in 1..Len(blocked) |-> blocked[i].public_key]
        /\ call.gate.success =>
              \A i \in 1..Len(call.gate.peers) : call.gate.peers[i] \notin live

\* One cycle returned warnings for 40 and 60 and a block for 100; the peer
\* was removed.
C16_Witness ==
    /\ call.op = "periodic_traffic_snapshot"
    /\ EventPcts(call) = <<40, 60, 100>>
    /\ call.events[2].action = "warn" /\ call.events[3].action = "blocked"
    /\ call.gate = [peers |-> <<"k1">>, success |-> TRUE]
    /\ "k1" \notin live

\* C17 (as claimed): once a peer has crossed 100 percent in a month and is off
\* the live interface, no cycle of that month returns a further event for it
\* and it comes back to the live interface only by a resync (wg syncconf,
\* the unblock button).
C17_BlockedUntilResync ==
    [][\A c \in clients :
          (/\ \E r \in alerts : /\ r.public_key = c.publickey
                                /\ r.month = today[1]
                                /\ r.threshold >= 100
           /\ c.publickey \notin live)
          => /\ EventsFor(call', c.publickey) = <<>>
             /\ c.publickey \in live' => \E u \in clients : UserUnblock(u)]_vars

\* C18: with the limit 0 an enforcement cycle returns no event, writes no
\* row of traffic_alerts and calls disable_peer() for no peer, whatever the
\* usage of the peers.
C18_LimitZeroDisablesEnforcement ==
    [][(call = NoCall /\ call'.checked /\ settings.wg_traffic_limit_gb = 0)
       => /\ call'.events = <<>>
          /\ alerts' = alerts
          /\ call'.gate.peers = <<>>
          /\ live' = live]_vars

\* A cycle ran the check with the limit 0 while the client had used a whole
\* GiB in the month, and the client is still live.
C18_Witness ==
    /\ call.op = "periodic_traffic_snapshot" /\ call.checked
    /\ settings.wg_traffic_limit_gb = 0
    /\ MonthlyGet(UsageNow, "k1") >= GiB
    /\ call.events = <<>> /\ alerts = {}
    /\ "k1" \in live

\* The peers that have no client directory.
Unmapped == PeerKeys \ {c.publickey : c \in clients}

\* C19: a peer with no client directory gets no event, no row of
\* traffic_alerts and no disable_peer() call from the enforcement cycle,
\* whatever the daily table holds for it.
C19_UnmappedPeerNeverEnforced ==
    \A pk \in Unmapped :
        /\ EventsFor(call, pk) = <<>>
        /\ \A r \in alerts : r.public_key # pk
        /\ \A i \in 1..Len(call.gate.peers) : call.gate.peers[i] # pk

\* A cycle blocked the client while the infrastructure peer, with a whole GiB
\* recorded for the month, stayed live.
C19_Witness ==
    /\ call.op = "periodic_traffic_snapshot" /\ call.checked
    /\ call.gate = [peers |-> <<"k1">>, success |-> TRUE]
    /\ "k2" \in Unmapped /\ "k2" \in live
    /\ InMonthRows("k2") # {}
    /\ RowTotal(Latest(InMonthRows("k2"))) >= GiB

\* C20: a committed snapshot reconciles the line of a peer with no client
\* directory as any other: last_seen is the reading, the baseline has the
\* previous last_seen folded in where the reading regressed, and the row of
\* the day holds baseline + last_seen.
C20_UnmappedPeerAccounted ==
    [][(call = NoCall /\ Committed(call'))
       => \A parts \in GoodLines(call'.result.output) :
            parts[1] \in Unmapped =>
              LET old == Stored(cumulative, parts[1])
                  new == Stored(cumulative', parts[1])
              IN /\ new.last_seen_rx = parts[6]
                 /\ new.last_seen_tx = parts[7]
                 /\ new.baseline_rx = old.baseline_rx
                       + (IF parts[6] < old.last_seen_rx THEN old.last_seen_rx ELSE 0)
                 /\ new.baseline_tx = old.baseline_tx
                       + (IF parts[7] < old.last_seen_tx THEN old.last_seen_tx ELSE 0)
                 /\ \E r \in daily' :
                       /\ r.public_key = parts[1] /\ r.date = today
                       /\ r.rx_bytes = new.baseline_rx + new.last_seen_rx
                       /\ r.tx_bytes = new.baseline_tx + new.last_seen_tx]_vars

\* The infrastructure peer was reconciled across a reset: its counter row
\* holds a folded baseline and a later reading.
C20_Witness ==
    /\ Committed(call)
    /\ \E parts \in GoodLines(call.result.output) :
          /\ parts[1] \in Unmapped
          /\ Stored(cumulative, parts[1]).baseline_tx > 0
          /\ Stored(cumulative, parts[1]).last_seen_tx > 0

\* C21: the monthly reset job calls enable_all_peers() only on the 1st of
\* the month (UTC); run on any other day it calls no gate command, leaves the
\* live interface as it is and sends no notification.
C21_ResetOnlyOnFirstDay ==
    [][(call = NoCall /\ call'.op = "monthly_reset")
       => /\ call'.resync => Day(today) = 1
          /\ Day(today) # 1 => /\ ~call'.resync
                               /\ ~call'.notified
                               /\ live' = live]_vars

\* The job ran on the 2nd while the client was blocked: no gate call, no
\* notification, the client still off the interface.
C21_Witness ==
    /\ call.op = "monthly_reset"
    /\ today = <<2, 2>>
    /\ ~call.resync /\ ~call.notified
    /\ "k1" \in configured \ live

\* C22: the rows of traffic_alerts of an earlier month never suppress an
\* event of the current month. No cycle removes a row, and when a client's
\* peer reaches in the current month a threshold it was alerted for in an
\* earlier month, with no row yet for the current month, the cycle returns
\* the event again and writes the row of the current month.
C22_PreviousMonthNeverSuppresses ==
    [][(call = NoCall /\ call'.checked /\ settings.wg_traffic_limit_gb # 0)
       => /\ alerts \subseteq alerts'
          /\ \A c \in clients :
             \A used \in {MonthlyGet(get_monthly_usage(daily', clients, today),
                                     c.publickey)} :
             \A r \in alerts :
                (/\ r.public_key = c.publickey
                 /\ r.month # today[1]
                 /\ r.threshold \in ReachedThresholds(used)
                 /\ AlertRows(alerts, c.publickey, today[1], r.threshold) = {})
                => /\ \E i \in 1..Len(call'.events) :
                         /\ call'.events[i].public_key = c.publickey
                         /\ call'.events[i].pct = r.threshold
                   /\ AlertRows(alerts', c.publickey, today[1], r.threshold) # {}]_vars

\* The client was alerted at 30 percent in month 1 and again in month 2:
\* the cycle of month 2 returned the event and both rows are in the table.
C22_Witness ==
    /\ call.op = "periodic_traffic_snapshot" /\ call.checked
    /\ today[1] = 2
    /\ EventPcts(call) = <<30>>
    /\ AlertRows(alerts, "k1", 1, 30) # {}
    /\ AlertRows(alerts, "k1", 2, 30) # {}

\* C23 (as claimed): when the remove command of disable_peer() fails during
\* an enforcement cycle, what check_traffic_limits() returns tells its caller
\* so: for a peer whose removal failed no event carries the action "blocked"
\* that the event of a successful removal carries.
C23_GateFailureReported ==
    (call.op = "periodic_traffic_snapshot" /\ ~call.gate.success)
    => \A i \in 1..Len(call.gate.peers) :
          \A j \in 1..Len(call.events) :
             call.events[j].public_key = call.gate.peers[i]
             => call.events[j].action # "blocked"

\* The peers of the events a handler returned with the action "blocked".
BlockedPeers(c) ==
    LET evs == SelectSeq(c.events, LAMBDA e : e.action = "blocked")
    IN [i \in 1..Len(evs) |-> evs[i].public_key]

\* C24: when the remove command fails the row of traffic_alerts for the
\* crossing is committed all the same and the peer stays on the interface;
\* a later cycle of the month returns no blocked event for a threshold that
\* has its row and calls disable_peer() only for the blocked events it
\* returns, so the failed remove is not attempted again.
C24_FailedBlockStillRecorded ==
    [][(call = NoCall /\ call'.op = "periodic_traffic_snapshot")
       => /\ call'.gate.peers = BlockedPeers(call')
          /\ \A j \in 1..Len(call'.events) :
                AlertRows(alerts, call'.events[j].public_key, today[1],
                          call'.events[j].pct) = {}
          /\ ~call'.gate.success
             => /\ live' = live
                /\ \A i \in 1..Len(call'.gate.peers) :
                      \E r \in alerts' : /\ r.public_key = call'.gate.peers[i]
                                         /\ r.month = today[1]
                                         /\ r.threshold >= 100]_vars

\* A cycle after the failed remove: the client is over the limit and on the
\* interface in the month of the crossing (no reset day since), the row for
\* 100 percent is in the table, and the cycle returned no event and called
\* disable_peer() for no peer.
C24_Witness ==
    /\ call.op = "periodic_traffic_snapshot" /\ call.checked
    /\ today = StartDate
    /\ AlertRows(alerts, "k1", today[1], 100) # {}
    /\ "k1" \in live
    /\ MonthlyGet(UsageNow, "k1") >= GiB
    /\ call.events = <<>> /\ call.gate.peers = <<>>

C26_OnlyPeriodicCycleWrites ==
    [][(cumulative' # cumulative \/ daily' # daily \/ alerts' # alerts)
       => call'.op = "periodic_traffic_snapshot"]_vars

\* The handlers between the first read and the commit of a pass over the
\* counter store: in snapshot_traffic() or in check_traffic_limits().
InPass(lp) == {t \in Tasks : lp.pc[t] \in {"reconcile", "enforce"}}

\* C27: no two read-modify-write passes over the counter store interleave:
\* no handler enters snapshot_traffic() or check_traffic_limits() while
\* another handler (the periodic job, the /traffic command, the weekly
\* report, the restart) is between the first read and the commit of its
\* pass, so at most one handler is ever inside a pass.
C27_PassesNeverInterleave ==
    [][/\ \A t \in InPass(loop') \ InPass(loop) : InPass(loop) = {}
       /\ Cardinality(InPass(loop')) <= 1]_vars

\* Handlers do overlap, at their awaits only: the weekly report is inside
\* snapshot_traffic() while the periodic job and the /traffic command are
\* suspended, one sending its events and one before its pass.
C27_Witness ==
    /\ loop.pc["send_weekly_traffic_report"] = "reconcile"
    /\ loop.pc["periodic_traffic_snapshot"] = "sending"
    /\ loop.pc["traffic_command"] = "collecting"
    /\ loop.running = "send_weekly_traffic_report"

\* C28: an unblock whose command succeeds leaves every configured peer on
\* the live interface, whichever user it was asked for, and no step of any
\* operation adds a peer to the live interface without making the live peers
\* all those of the configuration: none re-admits one peer alone.
C28_UnblockReadmitsAll ==
    [][/\ (call = NoCall /\ call'.op = "user_unblock" /\ call'.gate.success)
          => live' = configured
       /\ live' \ live # {} => live' = configured']_vars

\* Both clients were blocked and one unblock put both back on the interface.
C28_Witness ==
    /\ call.op = "user_unblock"
    /\ call.gate = [peers |-> <<"k1", "k2">>, success |-> TRUE]
    /\ live = {"k1", "k2"}

\* The peers that have a row in traffic_cumulative, and the (peer, date)
\* pairs that have one in traffic_daily.
CounterKeys(cum) == {r.public_key : r \in cum}
DailyKeys(day) == {<<r.public_key, r.date>> : r \in day}

\* C29: the peers with a row in traffic_cumulative only grow in number, and
\* so do the (peer, date) pairs of traffic_daily: no operation, deleting a
\* user, blocking and the monthly reset included, removes a row; a peer gets
\* its row in a committed snapshot whose dump holds a line for it.
C29_CounterRowsNeverDeleted ==
    [][/\ CounterKeys(cumulative) \subseteq CounterKeys(cumulative')
       /\ DailyKeys(daily) \subseteq DailyKeys(daily')
       /\ \A pk \in CounterKeys(cumulative') \ CounterKeys(cumulative) :
             /\ call = NoCall /\ Committed(call')
             /\ \E parts \in GoodLines(call'.result.output) : parts[1] = pk]_vars

\* alice was deleted and bob is blocked: k1 is in no client directory, not in
\* the configuration and not on the interface, k2 is off the interface, and
\* both still have their rows with what they had transferred.
C29_Witness ==
    /\ \A c \in clients : c.publickey # "k1"
    /\ "k1" \notin configured \cup live
    /\ "k2" \in configured \ live
    /\ \A pk \in {"k1", "k2"} :
          /\ Stored(cumulative, pk).last_seen_rx > 0
          /\ pk \in CounterKeys(cumulative)
          /\ <<pk, today>> \in DailyKeys(daily)

\* C30: after a committed snapshot every peer with a line in the dump has
\* one counter row whose last_seen is the reading of the line in each
\* direction, after a detected reset as well, and one row of the day that
\* holds baseline + last_seen of that counter row in each direction.
C30_LastSeenIsReadingDayIsTotal ==
    [][(call = NoCall /\ Committed(call'))
       => \A parts \in GoodLines(call'.result.output) :
            /\ Cardinality(CounterRows(cumulative', parts[1])) = 1
            /\ \A c \in CounterRows(cumulative', parts[1]) :
                  /\ c.last_seen_rx = parts[6]
                  /\ c.last_seen_tx = parts[7]
                  /\ {r \in daily' : r.public_key = parts[1] /\ r.date = today}
                       = {[public_key |-> parts[1], date |-> today,
                           rx_bytes |-> c.baseline_rx + c.last_seen_rx,
                           tx_bytes |-> c.baseline_tx + c.last_seen_tx]}]_vars

\* A reading taken after a reset had been folded: the counter row holds the
\* folded baseline and the reading 1 / 1 of the line, and the row of the day
\* holds 2 / 1.
C30_Witness ==
    /\ Committed(call)
    /\ \E parts \in GoodLines(call.result.output) :
          /\ parts[1] = "k1" /\ parts[6] = 1 /\ parts[7] = 1
          /\ CounterRows(cumulative, "k1")
               = {[public_key |-> "k1", baseline_rx |-> 1, baseline_tx |-> 0,
                   last_seen_rx |-> 1, last_seen_tx |-> 1]}
          /\ \E r \in daily : /\ r.public_key = "k1" /\ r.date = today
                              /\ r.rx_bytes = 2 /\ r.tx_bytes = 1

\* C31 (as claimed): when an enforcement cycle under a limit ends, with every
\* remove command it ran having succeeded, every client's peer whose usage
\* of the month is at or over the limit is off the live interface, whatever
\* unblocks and restarts came between the cycles.
C31_OverQuotaAbsentAfterCycle ==
    (/\ call.op = "periodic_traffic_snapshot" /\ call.checked
     /\ call.gate.success
     /\ settings.wg_traffic_limit_gb # 0)
    => \A c \in clients :
          MonthlyGet(UsageNow, c.publickey) >= LimitBytes(settings)
          => c.publickey \notin live

\* C32 (as claimed): while the calendar month stays the same, nothing written
\* to traffic_daily lowers the usage get_monthly_usage() computes for a
\* client's peer.
C32_UsageNonDecreasingInMonth ==
    [][today'[1] = today[1]
       => \A c \in clients :
            MonthlyGet(get_monthly_usage(daily', clients', today'), c.publickey)
              >= MonthlyGet(get_monthly_usage(daily, clients, today), c.publickey)]_vars

\* The percentages of the setting, as a set.
ConfiguredThresholds ==
    {settings.wg_traffic_alert_pct[i] : i \in 1..Len(settings.wg_traffic_alert_pct)}

\* C33: for every peer and month the thresholds that have a row in
\* traffic_alerts are the lowest of the configured ones: a row for a
\* threshold comes with a row for every lower configured threshold of the
\* same peer and month.
C33_AlertedThresholdsArePrefix ==
    \A r \in alerts :
        \A t \in ConfiguredThresholds :
            t < r.threshold => AlertRows(alerts, r.public_key, r.month, t) # {}

\* The rows for 40 and 60 were written by one cycle and the row for 100 by a
\* later one, which returned that event alone.
C33_Witness ==
    /\ call.op = "periodic_traffic_snapshot"
    /\ EventPcts(call) = <<100>>
    /\ AlertedThresholds(alerts, "k1", today[1]) = {40, 60, 100}

\* C34 (as claimed): every run of the periodic job under a limit runs
\* check_traffic_limits() after its snapshot, with or without a chat
\* configured and whatever the snapshot returned.
C34_CheckRunsEveryCycle ==
    (call.op = "periodic_traffic_snapshot" /\ settings.wg_traffic_limit_gb # 0)
    => call.checked

\* The rows of traffic_alerts whose message the chat has not received.
Undelivered ==
    {r \in alerts : <<r.public_key, r.month, r.threshold>> \notin bot.delivered}

\* C35 (as claimed): every threshold crossing recorded in traffic_alerts is
\* eventually delivered to the chat: from a state with recorded crossings
\* whose message was not received, a state with none is reached.
C35_RecordedIsEventuallyDelivered ==
    (Undelivered # {}) ~> (Undelivered = {})

\* C36: snapshot_traffic is all-or-nothing per dump: when the processing of
\* a dump raises part-way, traffic_cumulative and traffic_daily are as they
\* were before the call, whatever was written for the earlier lines.
C36_SnapshotAllOrNothing ==
    [][(/\ call = NoCall
        /\ call'.op \in {"periodic_traffic_snapshot", "get_traffic_stats",
                         "restart_internal"}
        /\ call'.snapshot = "raised")
       => /\ cumulative' = cumulative
          /\ daily' = daily]_vars

\* A dump raised at its second peer line after a first line whose counter
\* differs from the stored reading.
C36_Witness ==
    /\ call.snapshot = "raised"
    /\ Len(call.result.output) = 3
    /\ Len(call.result.output[2]) = 8
    /\ IsInt(call.result.output[2][6]) /\ IsInt(call.result.output[2][7])
    /\ ~IsInt(call.result.output[3][6])
    /\ call.result.output[2][6] # Stored(cumulative, call.result.output[2][1]).last_seen_rx

\* C37: restart_internal attempts a snapshot before it tears the interface
\* down: the dump its snapshot processes shows the peers and counters the
\* interface had before the restart, and when the snapshot returns None (the
\* dump could not be obtained) the interface is recreated all the same.
C37_SnapshotPrecedesRestart ==
    [][(call = NoCall /\ call'.op = "restart_internal")
       => /\ call'.snapshot \in {"None", "output", "raised"}
          /\ call'.result.success =>
                \A parts \in GoodLines(call'.result.output) :
                    /\ parts[1] \in live
                    /\ parts[6] = dev[parts[1]].rx
                    /\ parts[7] = dev[parts[1]].tx
          /\ call'.snapshot = "output" =>
                \A parts \in GoodLines(call'.result.output) :
                    /\ Stored(cumulative', parts[1]).last_seen_rx = dev[parts[1]].rx
                    /\ Stored(cumulative', parts[1]).last_seen_tx = dev[parts[1]].tx
          /\ call'.snapshot = "None" =>
                /\ live' = configured
                /\ dev' = [pk \in PeerKeys |-> Zero]]_vars

\* A restart whose snapshot could not obtain the dump, performed while the
\* store misses bytes the peer had transferred: the peer that was blocked is
\* back and the counters are at zero.
C37_Witness ==
    /\ call.op = "restart_internal"
    /\ call.snapshot = "None"
    /\ alerts # {}
    /\ live = configured
    /\ dev = [pk \in PeerKeys |-> Zero]
    /\ Stored(cumulative, "k1").baseline_rx + Stored(cumulative, "k1").last_seen_rx
          < lifetime["k1"].rx

\* The dates before a date on which a peer has a row of traffic_daily.
EarlierDates(pk, d) ==
    {r.date : r \in {q \in daily : q.public_key = pk /\ DateLess(q.date, d)}}
\* The row of a peer for a date.
RowOf(pk, d) == CHOOSE r \in daily : r.public_key = pk /\ r.date = d
\* The client directory of a name.
KeyOf(username) == (CHOOSE c \in clients : c.name = username).publickey

\* C38 (as claimed): every per-day delta the history reports for a mapped
\* peer is the peer's total of that day less the total of its most recent
\* earlier row, whether or not that row is of the preceding date of the
\* window.
C38_HistoryDeltaFromLastRow ==
    call.op = "send_weekly_traffic_report" =>
        \A i \in 1..Len(call.history) :
            \A j \in 1..Len(call.history[i].peers) :
                \A pk \in {KeyOf(call.history[i].peers[j].username)} :
                \A earlier \in {EarlierDates(pk, call.history[i].date)} :
                    earlier # {} =>
                        \A last \in {CHOOSE e \in earlier : \A f \in earlier : DateLeq(f, e)} :
                            /\ call.history[i].peers[j].rx =
                                  RowOf(pk, call.history[i].date).rx_bytes
                                    - RowOf(pk, last).rx_bytes
                            /\ call.history[i].peers[j].tx =
                                  RowOf(pk, call.history[i].date).tx_bytes
                                    - RowOf(pk, last).tx_bytes

\* C39 (as claimed): when delete_user has removed the client directory of a
\* user, the server configuration holds no [Peer] block written for that
\* user: every block it holds is that of a client directory that exists.
C39_NoBlockWithoutDirectoryAfterDelete ==
    [][(clients' # clients /\ clients' \subseteq clients)
       => configured' \subseteq {c.publickey : c \in clients'}]_vars

====
